---- MODULE Spec2Model ----
(***************************************************************************)
(* Model of the directory editor mode of QEmacs (src/modes/dired.c):       *)
(* the DiredState listing, the process-wide configuration, the window and  *)
(* the rendered buffer, with one action per dired command or hook.         *)
(*                                                                         *)
(* Characters are ASCII codes, strings are sequences of codes.             *)
(* A DiredItem pointer is a pair <<freed, id>>: id names the directory     *)
(* entry it was allocated for, freed is 1 once dired_free has released the *)
(* item, so a pointer kept over a rescan differs from every pointer to an   *)
(* item of the new scan.  NULL is <<>>.                                     *)
(***************************************************************************)
EXTENDS Integers, Sequences, FiniteSets, TLC

NULL == <<>>

\* ------------------------------------------------------------------ bounds
\* configuration changes of one behaviour, entries of one sorted listing,
\* widest window of the layout pass, end of the dense range of byte counts,
\* seconds around the limits of the compact date window, characters of a
\* sort-order string
MaxChanges == 1
MaxSortLen == 3
MaxWidth == 80
MaxNumber == 10300
MaxSkew == 20
MaxStrLen == 3

\* --------------------------------------------------------- enum constants
DIRED_HEADER == 2

DIRED_SORT_NAME == 1
DIRED_SORT_EXTENSION == 2
DIRED_SORT_SIZE == 4
DIRED_SORT_DATE == 8
DIRED_SORT_MASK == 15
DIRED_SORT_GROUP == 16
DIRED_SORT_DESCENDING == 32

DIRED_UPDATE_SORT == 1
DIRED_UPDATE_FILTER == 2
DIRED_UPDATE_COLUMNS == 4
DIRED_UPDATE_REBUILD == 8
DIRED_UPDATE_ALL == 15

TF_COMPACT == 0
TF_DOS == 1
TF_DOS_LONG == 2
TF_TOUCH == 3
TF_TOUCH_LONG == 4
TF_FULL == 5
TF_SECONDS == 6
TF_MAX == 6

DIRED_SHOW_BLOCKS == 1
DIRED_SHOW_MODE == 2
DIRED_SHOW_LINKS == 4
DIRED_SHOW_UID == 8
DIRED_SHOW_GID == 16
DIRED_SHOW_SIZE == 32
DIRED_SHOW_DATE == 64
DIRED_SHOW_ALL == 127

DIRED_DETAILS_AUTO == 0
DIRED_DETAILS_HIDE == 1
DIRED_DETAILS_SHOW == 2

\* ------------------------------------------------------------ bit helpers
\* bit is a power of two
HasBit(x, bit) == (x \div bit) % 2 = 1
SetBit(x, bit) == IF HasBit(x, bit) THEN x ELSE x + bit
ClearBit(x, bit) == IF HasBit(x, bit) THEN x - bit ELSE x
XorBit(x, bit) == IF HasBit(x, bit) THEN x - bit ELSE x + bit

max_int(a, b) == IF a > b THEN a ELSE b
clamp_int(a, lo, hi) == IF a < lo THEN lo ELSE IF a > hi THEN hi ELSE a

\* ------------------------------------------------------- stat mode macros
S_IFMT(mode) == (mode \div 4096) % 16
S_ISDIR(mode) == S_IFMT(mode) = 4
S_ISCHR(mode) == S_IFMT(mode) = 2
S_ISBLK(mode) == S_IFMT(mode) = 6
S_ISREG(mode) == S_IFMT(mode) = 8
S_ISFIFO(mode) == S_IFMT(mode) = 1
S_ISLNK(mode) == S_IFMT(mode) = 10
S_ISSOCK(mode) == S_IFMT(mode) = 12
S_IEXEC == 64

\* ------------------------------------------------------- string functions
RECURSIVE qe_strcollate(_, _)
\* total order on strings, 0 only for equal strings
qe_strcollate(s1, s2) ==
    IF s1 = <<>> /\ s2 = <<>> THEN 0
    ELSE IF s1 = <<>> THEN -1
    ELSE IF s2 = <<>> THEN 1
    ELSE IF Head(s1) < Head(s2) THEN -1
    ELSE IF Head(s1) > Head(s2) THEN 1
    ELSE qe_strcollate(Tail(s1), Tail(s2))

strequal(s1, s2) == s1 = s2

\* the text after the last '.' of the name, empty if the name has no '.'
get_extension(name) ==
    LET dots == {i \in 1..Len(name) : name[i] = 46}
    IN  IF dots = {} THEN <<>>
        ELSE LET last == CHOOSE i \in dots : \A j \in dots : j <= i
             IN  SubSeq(name, last + 1, Len(name))

RECURSIVE DecimalDigits(_)
\* the characters printf("%d") writes for n >= 0
DecimalDigits(n) ==
    IF n < 10 THEN <<48 + n>>
    ELSE Append(DecimalDigits(n \div 10), 48 + (n % 10))

\* the characters printf("%d") writes for any n
PrintfD(n) == IF n < 0 THEN <<45>> \o DecimalDigits(-n) ELSE DecimalDigits(n)

\* --------------------------------------------------------- dired_sort_func
\* variant: the descending flag also negates the result of the grouping step
dired_sort_func_group_negated(sort_mode, dip1, dip2) ==
    LET is_dir1 == IF S_ISDIR(dip1.mode) THEN 1 ELSE 0
        is_dir2 == IF S_ISDIR(dip2.mode) THEN 1 ELSE 0
        ext == qe_strcollate(get_extension(dip1.name), get_extension(dip2.name))
        res == IF HasBit(sort_mode, DIRED_SORT_GROUP) /\ is_dir1 # is_dir2
                 THEN is_dir2 - is_dir1
               ELSE IF HasBit(sort_mode, DIRED_SORT_DATE) /\ dip1.mtime # dip2.mtime
                 THEN (IF dip1.mtime < dip2.mtime THEN -1 ELSE 1)
               ELSE IF HasBit(sort_mode, DIRED_SORT_SIZE) /\ dip1.size # dip2.size
                 THEN (IF dip1.size < dip2.size THEN -1 ELSE 1)
               ELSE IF HasBit(sort_mode, DIRED_SORT_EXTENSION) /\ ext # 0
                 THEN ext
               ELSE qe_strcollate(dip1.name, dip2.name)
    IN  IF HasBit(sort_mode, DIRED_SORT_DESCENDING) THEN -res ELSE res

\* variant: no final comparison of the names when the primary key is equal
dired_sort_func_no_tiebreak(sort_mode, dip1, dip2) ==
    LET is_dir1 == IF S_ISDIR(dip1.mode) THEN 1 ELSE 0
        is_dir2 == IF S_ISDIR(dip2.mode) THEN 1 ELSE 0
        res == IF HasBit(sort_mode, DIRED_SORT_DATE)
                 THEN (IF dip1.mtime = dip2.mtime THEN 0
                       ELSE IF dip1.mtime < dip2.mtime THEN -1 ELSE 1)
               ELSE IF HasBit(sort_mode, DIRED_SORT_SIZE)
                 THEN (IF dip1.size = dip2.size THEN 0
                       ELSE IF dip1.size < dip2.size THEN -1 ELSE 1)
               ELSE IF HasBit(sort_mode, DIRED_SORT_EXTENSION)
                 THEN qe_strcollate(get_extension(dip1.name), get_extension(dip2.name))
               ELSE qe_strcollate(dip1.name, dip2.name)
    IN  IF HasBit(sort_mode, DIRED_SORT_GROUP) /\ is_dir1 # is_dir2
          THEN is_dir2 - is_dir1
        ELSE IF HasBit(sort_mode, DIRED_SORT_DESCENDING) THEN -res ELSE res

\* variant: under the date key the later modification time comes first
dired_sort_func_later_first(sort_mode, dip1, dip2) ==
    LET is_dir1 == IF S_ISDIR(dip1.mode) THEN 1 ELSE 0
        is_dir2 == IF S_ISDIR(dip2.mode) THEN 1 ELSE 0
        ext == qe_strcollate(get_extension(dip1.name), get_extension(dip2.name))
        res == IF HasBit(sort_mode, DIRED_SORT_DATE) /\ dip1.mtime # dip2.mtime
                 THEN (IF dip1.mtime < dip2.mtime THEN 1 ELSE -1)
               ELSE IF HasBit(sort_mode, DIRED_SORT_SIZE) /\ dip1.size # dip2.size
                 THEN (IF dip1.size < dip2.size THEN -1 ELSE 1)
               ELSE IF HasBit(sort_mode, DIRED_SORT_EXTENSION) /\ ext # 0
                 THEN ext
               ELSE qe_strcollate(dip1.name, dip2.name)
    IN  IF HasBit(sort_mode, DIRED_SORT_GROUP) /\ is_dir1 # is_dir2
          THEN is_dir2 - is_dir1
        ELSE IF HasBit(sort_mode, DIRED_SORT_DESCENDING) THEN -res ELSE res

dired_sort_func(sort_mode, dip1, dip2) ==
    LET is_dir1 == IF S_ISDIR(dip1.mode) THEN 1 ELSE 0
        is_dir2 == IF S_ISDIR(dip2.mode) THEN 1 ELSE 0
        ext == qe_strcollate(get_extension(dip1.name), get_extension(dip2.name))
        res == IF HasBit(sort_mode, DIRED_SORT_DATE) /\ dip1.mtime # dip2.mtime
                 THEN (IF dip1.mtime < dip2.mtime THEN -1 ELSE 1)
               ELSE IF HasBit(sort_mode, DIRED_SORT_SIZE) /\ dip1.size # dip2.size
                 THEN (IF dip1.size < dip2.size THEN -1 ELSE 1)
               ELSE IF HasBit(sort_mode, DIRED_SORT_EXTENSION) /\ ext # 0
                 THEN ext
               ELSE qe_strcollate(dip1.name, dip2.name)
    IN  IF HasBit(sort_mode, DIRED_SORT_GROUP) /\ is_dir1 # is_dir2
          THEN is_dir2 - is_dir1
        ELSE IF HasBit(sort_mode, DIRED_SORT_DESCENDING) THEN -res ELSE res

\* insert x into the sorted sequence seq, after the elements not above it
RECURSIVE SortedInsert(_, _, _)
SortedInsert(sort_mode, seq, x) ==
    IF seq = <<>> THEN <<x>>
    ELSE IF dired_sort_func(sort_mode, x, Head(seq)) < 0 THEN <<x>> \o seq
    ELSE <<Head(seq)>> \o SortedInsert(sort_mode, Tail(seq), x)

RECURSIVE qe_qsort_r(_, _)
\* sorts items with dired_sort_func as comparator
qe_qsort_r(sort_mode, items) ==
    IF items = <<>> THEN <<>>
    ELSE SortedInsert(sort_mode, qe_qsort_r(sort_mode, Tail(items)), Head(items))


RECURSIVE Spaces(_)
Spaces(n) == IF n <= 0 THEN <<>> ELSE <<32>> \o Spaces(n - 1)

\* printf("%*s"): str right-justified in a field of w characters
PadLeft(str, w) == Spaces(w - Len(str)) \o str

\* ------------------------------------------------------------ format_number
RECURSIVE HumanLoop_inclusive(_, _, _, _)
\* variant: the bound of the one-decimal form is included
HumanLoop_inclusive(number, suffix, onedec, binary) ==
    LET unit == IF binary THEN 1020 ELSE 1000
        tenth == IF binary THEN 102 ELSE 100
    IN  IF Len(suffix) > 1 /\ number >= 1000
          THEN IF number <= onedec
                 THEN <<48 + (number \div unit), 46,
                        48 + ((number \div tenth) % 10), suffix[2]>>
               ELSE HumanLoop_inclusive(IF binary THEN number \div 1024
                                        ELSE number \div 1000,
                                        Tail(suffix), onedec, binary)
        ELSE PrintfD(number) \o <<suffix[1]>>

RECURSIVE HumanLoop(_, _, _, _)
\* the while loop of format_number: suffix is the rest of the suffix string,
\* onedec the bound under which one fractional digit is printed, unit and
\* tenth the divisors of the two digits, binary selects >>= 10 over /= 1000
HumanLoop(number, suffix, onedec, binary) ==
    LET unit == IF binary THEN 1020 ELSE 1000
        tenth == IF binary THEN 102 ELSE 100
    IN  IF Len(suffix) > 1 /\ number >= 1000
          THEN IF number < onedec
                 THEN <<48 + (number \div unit), 46,
                        48 + ((number \div tenth) % 10), suffix[2]>>
               ELSE HumanLoop(IF binary THEN number \div 1024 ELSE number \div 1000,
                              Tail(suffix), onedec, binary)
        ELSE PrintfD(number) \o <<suffix[1]>>

\* "BkMGTPEZY" and "BKMGTPEZY"
SuffixMetric == <<66, 107, 77, 71, 84, 80, 69, 90, 89>>
SuffixGeek == <<66, 75, 77, 71, 84, 80, 69, 90, 89>>

format_number(human, number) ==
    IF human = 0 THEN PrintfD(number)
    ELSE IF human > 1 THEN HumanLoop(number, SuffixMetric, 10000, FALSE)
    ELSE HumanLoop(number, SuffixGeek, 10200, TRUE)

\* ------------------------------------------------------- owner and group
\* password and group databases of the host: id 0 has a name, others none
getpwuid(uid) == IF uid = 0 THEN <<114, 111, 111, 116>> ELSE NULL
getgrgid(gid) == IF gid = 0 THEN <<119, 104, 101, 101, 108>> ELSE NULL

format_gid(nflag, gid) ==
    IF nflag = 0 /\ getgrgid(gid) # NULL THEN getgrgid(gid) ELSE PrintfD(gid)

format_uid(nflag, uid) ==
    IF nflag = 0 /\ getpwuid(uid) # NULL THEN getpwuid(uid) ELSE PrintfD(uid)

\* dev_t is 8 bytes wide: 24-bit minor
format_size(human, st_mode, st_rdev, st_size) ==
    IF S_ISCHR(st_mode) \/ S_ISBLK(st_mode)
      THEN PadLeft(PrintfD(st_rdev \div 16777216), 3) \o <<44, 32>>
           \o PadLeft(PrintfD(st_rdev % 16777216), 3)
    ELSE format_number(human, st_size)

\* ---------------------------------------------------------------- format_date
\* variant: the limits of the compact window are included
format_date_inclusive(systime, time_format, curtime) ==
    IF time_format = TF_TOUCH THEN [form |-> "touch", len |-> 10]
    ELSE IF time_format = TF_TOUCH_LONG THEN [form |-> "touch-long", len |-> 13]
    ELSE IF time_format = TF_DOS THEN [form |-> "dos", len |-> 18]
    ELSE IF time_format = TF_DOS_LONG THEN [form |-> "dos-long", len |-> 21]
    ELSE IF time_format = TF_FULL THEN [form |-> "full", len |-> 20]
    ELSE IF time_format = TF_SECONDS
      THEN [form |-> "seconds", len |-> max_int(10, Len(DecimalDigits(systime)))]
    ELSE IF systime >= curtime - 182 * 86400 /\ systime <= curtime + 182 * 86400
      THEN [form |-> "month-day-time", len |-> 12]
    ELSE [form |-> "month-day-year", len |-> 12]

\* the form chosen and the number of characters written
format_date(systime, time_format, curtime) ==
    IF time_format = TF_TOUCH THEN [form |-> "touch", len |-> 10]
    ELSE IF time_format = TF_TOUCH_LONG THEN [form |-> "touch-long", len |-> 13]
    ELSE IF time_format = TF_DOS THEN [form |-> "dos", len |-> 18]
    ELSE IF time_format = TF_DOS_LONG THEN [form |-> "dos-long", len |-> 21]
    ELSE IF time_format = TF_FULL THEN [form |-> "full", len |-> 20]
    ELSE IF time_format = TF_SECONDS
      THEN [form |-> "seconds", len |-> max_int(10, Len(DecimalDigits(systime)))]
    ELSE IF systime > curtime - 182 * 86400 /\ systime < curtime + 182 * 86400
      THEN [form |-> "month-day-time", len |-> 12]
    ELSE [form |-> "month-day-year", len |-> 12]

get_trailchar(mode) ==
    IF S_ISFIFO(mode) THEN 124
    ELSE IF S_ISSOCK(mode) THEN 61
    ELSE IF S_ISLNK(mode) THEN 64
    ELSE IF S_ISDIR(mode) THEN 47
    ELSE IF HasBit(mode, S_IEXEC) THEN 42
    ELSE 0


\* ------------------------------------------------------------ compute_attr
\* the permission bits of a mode
Perm ==
    [IRUSR |-> 256, IWUSR |-> 128, IXUSR |-> 64,
     IRGRP |-> 32, IWGRP |-> 16, IXGRP |-> 8,
     IROTH |-> 4, IWOTH |-> 2, IXOTH |-> 1,
     ISUID |-> 2048, ISGID |-> 1024, ISVTX |-> 512]

\* the characters - d b c p s l r w x S t T
Chr ==
    [dash |-> 45, d |-> 100, b |-> 98, c |-> 99, p |-> 112, s |-> 115, l |-> 108,
     r |-> 114, w |-> 119, x |-> 120, S |-> 83, t |-> 116, T |-> 84]

\* variant: a socket gets the character of a fifo
TypeGlyph_no_socket(mode) ==
    IF S_ISREG(mode) THEN Chr.dash
    ELSE IF S_ISLNK(mode) THEN Chr.l
    ELSE IF S_ISFIFO(mode) \/ S_ISSOCK(mode) THEN Chr.p
    ELSE IF S_ISCHR(mode) THEN Chr.c
    ELSE IF S_ISBLK(mode) THEN Chr.b
    ELSE IF S_ISDIR(mode) THEN Chr.d
    ELSE Chr.dash

\* the type character: the last of the tests that holds decides
TypeGlyph(mode) ==
    IF S_ISREG(mode) THEN Chr.dash
    ELSE IF S_ISLNK(mode) THEN Chr.l
    ELSE IF S_ISSOCK(mode) THEN Chr.s
    ELSE IF S_ISFIFO(mode) THEN Chr.p
    ELSE IF S_ISCHR(mode) THEN Chr.c
    ELSE IF S_ISBLK(mode) THEN Chr.b
    ELSE IF S_ISDIR(mode) THEN Chr.d
    ELSE Chr.dash

\* atts[0] .. atts[9] are the elements 1 .. 10
compute_attr(mode) ==
    LET on(bit, c) == IF HasBit(mode, bit) THEN c ELSE Chr.dash
        setid(c, C, xbit) == IF HasBit(mode, xbit) THEN c ELSE C
        a3 == IF HasBit(mode, Perm.ISUID) THEN setid(Chr.s, Chr.S, Perm.IXUSR)
              ELSE on(Perm.IXUSR, Chr.x)
        a6 == IF HasBit(mode, Perm.ISVTX) THEN setid(Chr.t, Chr.T, Perm.IXOTH)
              ELSE IF HasBit(mode, Perm.ISGID) THEN setid(Chr.s, Chr.S, Perm.IXGRP)
              ELSE on(Perm.IXGRP, Chr.x)
    IN  << TypeGlyph(mode),
           on(Perm.IRUSR, Chr.r), on(Perm.IWUSR, Chr.w), a3,
           on(Perm.IRGRP, Chr.r), on(Perm.IWGRP, Chr.w), a6,
           on(Perm.IROTH, Chr.r), on(Perm.IWOTH, Chr.w), on(Perm.IXOTH, Chr.x) >>

\* ------------------------------------------------------- buffer positions
\* The buffer b is the sequence of its lines; a line records its length in
\* characters (newline included), the item it renders (NULL for a header
\* line) and the mark character it starts with.
RECURSIVE SumLen(_)
SumLen(lines) == IF lines = <<>> THEN 0 ELSE Head(lines).len + SumLen(Tail(lines))

total_size(b) == SumLen(b)

\* offset of the first character of line (0-based)
LineStart(b, line) == SumLen(SubSeq(b, 1, line))

\* line and column of an offset
eb_get_pos(b, offset) ==
    LET line == Cardinality({i \in 1..Len(b) : LineStart(b, i) <= offset})
    IN  [line |-> line, col |-> offset - LineStart(b, line)]

\* offset of a line and column, stopping at the end of the line
eb_goto_pos(b, line, col) ==
    IF line >= Len(b) THEN total_size(b)
    ELSE LET last == b[line + 1].len - 1
         IN  LineStart(b, line) + (IF col > last THEN last ELSE IF col < 0 THEN 0 ELSE col)

list_get_pos(s, b) == eb_get_pos(b, s.offset).line

\* ------------------------------------------------------ dired_get_cur_item
VisibleItems(items) == SelectSeq(items, LAMBDA d : ~d.hidden)

\* variant: hidden items are counted too
dired_get_cur_item_any(ds, s, b) ==
    LET index == list_get_pos(s, b) - DIRED_HEADER
    IN  IF index >= 0 /\ index < Len(ds.items) THEN ds.items[index + 1].ptr ELSE NULL

dired_get_cur_item(ds, s, b) ==
    LET index == list_get_pos(s, b) - DIRED_HEADER
        vis == VisibleItems(ds.items)
    IN  IF index >= 0 /\ index < Len(vis) THEN vis[index + 1].ptr ELSE NULL

\* the item a pointer refers to
ItemOf(ds, ptr) ==
    LET i == CHOOSE i \in 1..Len(ds.items) : ds.items[i].ptr = ptr
    IN  ds.items[i]

\* -------------------------------------------------------- dired_find_target
\* target is a file name, NULL for none
dired_find_target(ds, target) ==
    LET hits == {i \in 1..Len(ds.items) : strequal(ds.items[i].name, target)}
    IN  IF target = NULL \/ hits = {} THEN DIRED_HEADER
        ELSE LET first == CHOOSE i \in hits : \A j \in hits : i <= j
             IN  DIRED_HEADER + Len(VisibleItems(SubSeq(ds.items, 1, first - 1)))

\* --------------------------------------------------------- dired_filter_files
\* ".DS_Store"
DS_Store == <<46, 68, 83, 95, 83, 116, 111, 114, 101>>

\* variant: ".DS_Store" is treated like any other dot file
FilterHidden_dot_only(g, name) ==
    /\ name # <<>>
    /\ name[1] = 46
    /\ g.dired_show_dot_files = 0

FilterHidden(g, name) ==
    /\ name # <<>>
    /\ name[1] = 46
    /\ \/ g.dired_show_dot_files = 0
       \/ (g.dired_show_ds_store = 0 /\ strequal(name, DS_Store))

RECURSIVE SumSize(_)
SumSize(items) == IF items = <<>> THEN 0 ELSE Head(items).size + SumSize(Tail(items))

\* variant: total_bytes is not reset before the loop
dired_filter_files_no_reset(ds, g) ==
    LET items == [i \in 1..Len(ds.items) |->
                    [ds.items[i] EXCEPT !.hidden = FilterHidden(g, ds.items[i].name)]]
        hid == SelectSeq(items, LAMBDA d : d.hidden)
        vis == SelectSeq(items, LAMBDA d : ~d.hidden)
    IN  [ds EXCEPT !.show_dot_files = g.dired_show_dot_files,
                   !.show_ds_store = g.dired_show_ds_store,
                   !.items = items,
                   !.ndirs_hidden = Len(SelectSeq(hid, LAMBDA d : S_ISDIR(d.mode))),
                   !.nfiles_hidden = Len(SelectSeq(hid, LAMBDA d : ~S_ISDIR(d.mode))),
                   !.ndirs = Len(SelectSeq(vis, LAMBDA d : S_ISDIR(d.mode))),
                   !.nfiles = Len(SelectSeq(vis, LAMBDA d : ~S_ISDIR(d.mode))),
                   !.total_bytes = ds.total_bytes
                        + SumSize(SelectSeq(vis, LAMBDA d : ~S_ISDIR(d.mode)))]

dired_filter_files(ds, g) ==
    LET items == [i \in 1..Len(ds.items) |->
                    [ds.items[i] EXCEPT !.hidden = FilterHidden(g, ds.items[i].name)]]
        hid == SelectSeq(items, LAMBDA d : d.hidden)
        vis == SelectSeq(items, LAMBDA d : ~d.hidden)
    IN  [ds EXCEPT !.show_dot_files = g.dired_show_dot_files,
                   !.show_ds_store = g.dired_show_ds_store,
                   !.items = items,
                   !.ndirs_hidden = Len(SelectSeq(hid, LAMBDA d : S_ISDIR(d.mode))),
                   !.nfiles_hidden = Len(SelectSeq(hid, LAMBDA d : ~S_ISDIR(d.mode))),
                   !.ndirs = Len(SelectSeq(vis, LAMBDA d : S_ISDIR(d.mode))),
                   !.nfiles = Len(SelectSeq(vis, LAMBDA d : ~S_ISDIR(d.mode))),
                   !.total_bytes = SumSize(SelectSeq(vis, LAMBDA d : ~S_ISDIR(d.mode)))]

\* ------------------------------------------------------ dired_compute_columns
MaxOf(S) == IF S = {} THEN 0 ELSE CHOOSE x \in S : \A y \in S : y <= x

dired_compute_columns(ds, g, curtime) ==
    LET I == 1..Len(ds.items)
        it == ds.items
        hide == ds.details_flag = DIRED_DETAILS_HIDE
        W(f(_)) == IF hide THEN 0 ELSE MaxOf({f(it[i]) : i \in I})
        blocks(d) == Len(PrintfD((d.size + ds.blocksize - 1) \div ds.blocksize))
        modew(d) == 10
        links(d) == Len(PrintfD(d.nlink))
        uidw(d) == Len(format_uid(g.dired_nflag, d.uid))
        gidw(d) == Len(format_gid(g.dired_nflag, d.gid))
        sizew(d) == Len(format_size(g.dired_hflag, d.mode, d.rdev, d.size))
        datew(d) == format_date(d.mtime, g.dired_time_format, curtime).len
    IN  [ds EXCEPT !.time_format = g.dired_time_format,
                   !.hflag = g.dired_hflag,
                   !.nflag = g.dired_nflag,
                   !.namelen = MaxOf({Len(it[i].name) : i \in I}),
                   !.blockslen = W(blocks),
                   !.modelen = W(modew),
                   !.linklen = W(links),
                   !.uidlen = W(uidw),
                   !.gidlen = W(gidw),
                   !.sizelen = W(sizew),
                   !.datelen = W(datew)]

\* variant: no room is reserved for the name column
dired_details_mask_no_name(ds, width) ==
    LET w1 == width - (ds.sizelen + 2)
        w2 == w1 - (ds.datelen + 2)
        w3 == w2 - (ds.modelen + 1)
        w4 == IF ds.nflag = 2 THEN w3 ELSE w3 - (ds.uidlen + 1)
        w5 == IF ds.nflag = 2 THEN w4 ELSE w4 - (ds.gidlen + 1)
        w6 == w5 - (ds.linklen + 1)
        drop(c, bit) == IF c THEN bit ELSE 0
    IN  IF ds.details_flag = DIRED_DETAILS_HIDE THEN 0
        ELSE IF ds.details_flag = DIRED_DETAILS_AUTO
          THEN DIRED_SHOW_ALL
               - drop(w1 < 0, DIRED_SHOW_SIZE)
               - drop(w2 < 0, DIRED_SHOW_DATE)
               - drop(w3 < 0, DIRED_SHOW_MODE)
               - drop(ds.nflag = 2 \/ w4 < 0, DIRED_SHOW_UID)
               - drop(ds.nflag = 2 \/ w5 < 0, DIRED_SHOW_GID)
               - drop(w6 < 0, DIRED_SHOW_LINKS)
               - DIRED_SHOW_BLOCKS
        ELSE DIRED_SHOW_ALL

\* variant: a dropped column gives its width back to the columns after it
dired_details_mask_refund(ds, width) ==
    LET w0 == width - clamp_int(ds.namelen, 16, 40)
        keep(w, c) == IF w - c < 0 THEN w ELSE w - c
        w1 == keep(w0, ds.sizelen + 2)
        w2 == keep(w1, ds.datelen + 2)
        w3 == keep(w2, ds.modelen + 1)
        w4 == IF ds.nflag = 2 THEN w3 ELSE keep(w3, ds.uidlen + 1)
        w5 == IF ds.nflag = 2 THEN w4 ELSE keep(w4, ds.gidlen + 1)
        drop(c, bit) == IF c THEN bit ELSE 0
    IN  IF ds.details_flag = DIRED_DETAILS_HIDE THEN 0
        ELSE IF ds.details_flag = DIRED_DETAILS_AUTO
          THEN DIRED_SHOW_ALL
               - drop(w0 - (ds.sizelen + 2) < 0, DIRED_SHOW_SIZE)
               - drop(w1 - (ds.datelen + 2) < 0, DIRED_SHOW_DATE)
               - drop(w2 - (ds.modelen + 1) < 0, DIRED_SHOW_MODE)
               - drop(ds.nflag = 2 \/ w3 - (ds.uidlen + 1) < 0, DIRED_SHOW_UID)
               - drop(ds.nflag = 2 \/ w4 - (ds.gidlen + 1) < 0, DIRED_SHOW_GID)
               - drop(w5 - (ds.linklen + 1) < 0, DIRED_SHOW_LINKS)
               - DIRED_SHOW_BLOCKS
        ELSE DIRED_SHOW_ALL

\* variant: the size column is charged with one separator character
dired_details_mask_size_sep(ds, width) ==
    LET w0 == width - clamp_int(ds.namelen, 16, 40)
        w1 == w0 - (ds.sizelen + 1)
        w2 == w1 - (ds.datelen + 2)
        w3 == w2 - (ds.modelen + 1)
        w4 == IF ds.nflag = 2 THEN w3 ELSE w3 - (ds.uidlen + 1)
        w5 == IF ds.nflag = 2 THEN w4 ELSE w4 - (ds.gidlen + 1)
        w6 == w5 - (ds.linklen + 1)
        drop(c, bit) == IF c THEN bit ELSE 0
    IN  IF ds.details_flag = DIRED_DETAILS_HIDE THEN 0
        ELSE IF ds.details_flag = DIRED_DETAILS_AUTO
          THEN DIRED_SHOW_ALL
               - drop(w1 < 0, DIRED_SHOW_SIZE)
               - drop(w2 < 0, DIRED_SHOW_DATE)
               - drop(w3 < 0, DIRED_SHOW_MODE)
               - drop(ds.nflag = 2 \/ w4 < 0, DIRED_SHOW_UID)
               - drop(ds.nflag = 2 \/ w5 < 0, DIRED_SHOW_GID)
               - drop(w6 < 0, DIRED_SHOW_LINKS)
               - DIRED_SHOW_BLOCKS
        ELSE DIRED_SHOW_ALL

\* variant: each column is tested alone against the room left of the name
dired_details_mask_each_alone(ds, width) ==
    LET w0 == width - clamp_int(ds.namelen, 16, 40)
        drop(c, bit) == IF c THEN bit ELSE 0
    IN  IF ds.details_flag = DIRED_DETAILS_HIDE THEN 0
        ELSE IF ds.details_flag = DIRED_DETAILS_AUTO
          THEN DIRED_SHOW_ALL
               - drop(w0 - (ds.sizelen + 2) < 0, DIRED_SHOW_SIZE)
               - drop(w0 - (ds.datelen + 2) < 0, DIRED_SHOW_DATE)
               - drop(w0 - (ds.modelen + 1) < 0, DIRED_SHOW_MODE)
               - drop(ds.nflag = 2 \/ w0 - (ds.uidlen + 1) < 0, DIRED_SHOW_UID)
               - drop(ds.nflag = 2 \/ w0 - (ds.gidlen + 1) < 0, DIRED_SHOW_GID)
               - drop(w0 - (ds.linklen + 1) < 0, DIRED_SHOW_LINKS)
               - DIRED_SHOW_BLOCKS
        ELSE DIRED_SHOW_ALL

\* variant: uid and gid are dropped for lack of room only
dired_details_mask_no_nflag(ds, width) ==
    LET w0 == width - clamp_int(ds.namelen, 16, 40)
        w1 == w0 - (ds.sizelen + 2)
        w2 == w1 - (ds.datelen + 2)
        w3 == w2 - (ds.modelen + 1)
        w4 == w3 - (ds.uidlen + 1)
        w5 == w4 - (ds.gidlen + 1)
        w6 == w5 - (ds.linklen + 1)
        drop(c, bit) == IF c THEN bit ELSE 0
    IN  IF ds.details_flag = DIRED_DETAILS_HIDE THEN 0
        ELSE IF ds.details_flag = DIRED_DETAILS_AUTO
          THEN DIRED_SHOW_ALL
               - drop(w1 < 0, DIRED_SHOW_SIZE)
               - drop(w2 < 0, DIRED_SHOW_DATE)
               - drop(w3 < 0, DIRED_SHOW_MODE)
               - drop(w4 < 0, DIRED_SHOW_UID)
               - drop(w5 < 0, DIRED_SHOW_GID)
               - drop(w6 < 0, DIRED_SHOW_LINKS)
               - DIRED_SHOW_BLOCKS
        ELSE DIRED_SHOW_ALL

\* ------------------------------------------- details mask (dired_update_buffer)
\* width is the window width in characters
dired_details_mask(ds, width) ==
    LET w0 == width - clamp_int(ds.namelen, 16, 40)
        w1 == w0 - (ds.sizelen + 2)
        w2 == w1 - (ds.datelen + 2)
        w3 == w2 - (ds.modelen + 1)
        w4 == IF ds.nflag = 2 THEN w3 ELSE w3 - (ds.uidlen + 1)
        w5 == IF ds.nflag = 2 THEN w4 ELSE w4 - (ds.gidlen + 1)
        w6 == w5 - (ds.linklen + 1)
        drop(c, bit) == IF c THEN bit ELSE 0
    IN  IF ds.details_flag = DIRED_DETAILS_HIDE THEN 0
        ELSE IF ds.details_flag = DIRED_DETAILS_AUTO
          THEN DIRED_SHOW_ALL
               - drop(w1 < 0, DIRED_SHOW_SIZE)
               - drop(w2 < 0, DIRED_SHOW_DATE)
               - drop(w3 < 0, DIRED_SHOW_MODE)
               - drop(ds.nflag = 2 \/ w4 < 0, DIRED_SHOW_UID)
               - drop(ds.nflag = 2 \/ w5 < 0, DIRED_SHOW_GID)
               - drop(w6 < 0, DIRED_SHOW_LINKS)
               - DIRED_SHOW_BLOCKS
        ELSE DIRED_SHOW_ALL


\* --------------------------------------------- rendering (dired_update_buffer)
\* "/d", the path of the listed directory
DirPath == <<47, 100>>

\* readlink on the entries of the modelled directories: none is a readable link
getentryslink(name) == NULL

\* characters of "%c %d %s" for a count and its inflected noun
SummaryPart(n, singular, plural) ==
    IF n = 0 THEN 0 ELSE 2 + Len(PrintfD(n)) + 1 + (IF n = 1 THEN singular ELSE plural)

\* the two header lines: "  Directory of <path>\n" and the summary line
HeaderLines(ds) ==
    LET bytes == IF ds.total_bytes = 0 THEN 0
                 ELSE 2 + Len(format_number(ds.hflag, ds.total_bytes)) + 1
                      + (IF ds.total_bytes = 1 THEN 4 ELSE 5)
        empty == IF ds.ndirs + ds.ndirs_hidden + ds.nfiles + ds.nfiles_hidden = 0
                 THEN 7 ELSE 0
        summary == SummaryPart(ds.ndirs, 9, 11) + SummaryPart(ds.ndirs_hidden, 16, 18)
                   + SummaryPart(ds.nfiles, 4, 5) + SummaryPart(ds.nfiles_hidden, 11, 12)
                   + bytes + empty
    IN  << [len |-> 15 + Len(DirPath) + 1, ptr |-> NULL, mark |-> 32],
           [len |-> 2 + summary + 1, ptr |-> NULL, mark |-> 32] >>

\* col after the optional columns of an entry line have been printed
EntryCol(ds, g, dip) ==
    LET on(bit) == HasBit(ds.details_mask, bit)
        blocks == Len(PrintfD((dip.size + ds.blocksize - 1) \div ds.blocksize))
    IN  2
        + (IF on(DIRED_SHOW_BLOCKS) THEN max_int(ds.blockslen, blocks) + 1 ELSE 0)
        + (IF on(DIRED_SHOW_MODE) THEN 10 + 1 ELSE 0)
        + (IF on(DIRED_SHOW_LINKS)
             THEN max_int(ds.linklen, Len(PrintfD(dip.nlink))) + 1 ELSE 0)
        + (IF on(DIRED_SHOW_UID)
             THEN max_int(ds.uidlen, Len(format_uid(ds.nflag, dip.uid))) + 1 ELSE 0)
        + (IF on(DIRED_SHOW_GID)
             THEN max_int(ds.gidlen, Len(format_gid(ds.nflag, dip.gid))) + 1 ELSE 0)
        + (IF on(DIRED_SHOW_SIZE)
             THEN 1 + max_int(ds.sizelen,
                      Len(format_size(ds.hflag, dip.mode, dip.rdev, dip.size))) + 2
             ELSE 0)
        + (IF on(DIRED_SHOW_DATE)
             THEN format_date(dip.mtime, g.dired_time_format, g.dired_curtime).len + 2
             ELSE 0)

EntryLine(ds, g, dip) ==
    LET link == IF S_ISLNK(dip.mode) /\ getentryslink(dip.name) # NULL
                THEN 4 + Len(getentryslink(dip.name)) ELSE 0
    IN  [len |-> EntryCol(ds, g, dip) + Len(dip.name)
                 + (IF get_trailchar(dip.mode) # 0 THEN 1 ELSE 0) + link + 1,
         ptr |-> dip.ptr, mark |-> dip.mark]

RECURSIVE RenderItems(_, _, _, _)
\* the loop over the items: every item gets the buffer offset reached when
\* it is visited, every item that is not hidden gets a line
RenderItems(ds, g, items, offset) ==
    IF items = <<>> THEN [items |-> <<>>, lines |-> <<>>]
    ELSE LET dip == [Head(items) EXCEPT !.offset = offset]
             line == EntryLine(ds, g, dip)
             rest == RenderItems(ds, g, Tail(items),
                                 IF dip.hidden THEN offset ELSE offset + line.len)
         IN  [items |-> <<dip>> \o rest.items,
              lines |-> (IF dip.hidden THEN <<>> ELSE <<line>>) \o rest.lines]

\* width of a character cell of the window's screen
get_glyph_width == 1

\* -------------------------------------------------------- dired_update_buffer
\* The call is modelled in stages, each from the record st of the stage
\* before it: the configuration g, the listing ds, the window s, the buffer
\* b and the locals flags, cur_item, top_line, window_width and width.
UpdateEnter(g, ds, s, b, flags) ==
    [g |-> g, ds |-> ds, s |-> s, b |-> b, flags |-> flags,
     window_width |-> s.width,
     width |-> s.width \div max_int(1, get_glyph_width),
     top_line |-> eb_get_pos(b, s.offset_top).line,
     cur_item |-> dired_get_cur_item(ds, s, b)]

\* variant: a sort does not ask for the rebuild
UpdateSort_no_rebuild(st) ==
    IF st.ds.sort_mode # st.g.dired_sort_mode \/ HasBit(st.flags, DIRED_UPDATE_SORT)
      THEN [st EXCEPT
              !.flags = SetBit(st.flags, DIRED_UPDATE_SORT),
              !.ds.sort_mode = st.g.dired_sort_mode,
              !.ds.items = qe_qsort_r(st.g.dired_sort_mode, st.ds.items)]
    ELSE st

UpdateSort(st) ==
    IF st.ds.sort_mode # st.g.dired_sort_mode \/ HasBit(st.flags, DIRED_UPDATE_SORT)
      THEN [st EXCEPT
              !.flags = SetBit(SetBit(st.flags, DIRED_UPDATE_SORT), DIRED_UPDATE_REBUILD),
              !.ds.sort_mode = st.g.dired_sort_mode,
              !.ds.items = qe_qsort_r(st.g.dired_sort_mode, st.ds.items)]
    ELSE st

\* variant: the filter runs only when the caller asks for it
UpdateFilter_flag_only(st) ==
    IF HasBit(st.flags, DIRED_UPDATE_FILTER)
      THEN [st EXCEPT
              !.flags = SetBit(SetBit(st.flags, DIRED_UPDATE_FILTER), DIRED_UPDATE_REBUILD),
              !.ds = dired_filter_files(st.ds, st.g)]
    ELSE st

UpdateFilter(st) ==
    IF \/ st.ds.show_dot_files # st.g.dired_show_dot_files
       \/ st.ds.show_ds_store # st.g.dired_show_ds_store
       \/ HasBit(st.flags, DIRED_UPDATE_FILTER)
      THEN [st EXCEPT
              !.flags = SetBit(SetBit(st.flags, DIRED_UPDATE_FILTER), DIRED_UPDATE_REBUILD),
              !.ds = dired_filter_files(st.ds, st.g)]
    ELSE st

UpdateColumns(st, now) ==
    IF \/ st.ds.time_format # st.g.dired_time_format
       \/ st.ds.nflag # st.g.dired_nflag
       \/ st.ds.hflag # st.g.dired_hflag
       \/ st.ds.details_flag # st.ds.last_details_flag
       \/ HasBit(st.flags, DIRED_UPDATE_COLUMNS)
      THEN [st EXCEPT
              !.flags = SetBit(SetBit(st.flags, DIRED_UPDATE_COLUMNS), DIRED_UPDATE_REBUILD),
              !.g.dired_curtime = now,
              !.ds = dired_compute_columns(st.ds, st.g, now)]
    ELSE st

\* variant: the width of the window is not recorded
UpdateLayout_no_last_width(st) ==
    [st EXCEPT !.ds.last_details_flag = st.ds.details_flag,
               !.ds.last_cur = NULL,
               !.ds.details_mask = dired_details_mask(st.ds, st.width)]

\* the assignments before the buffer is cleared
UpdateLayout(st) ==
    [st EXCEPT !.ds.last_details_flag = st.ds.details_flag,
               !.ds.last_width = st.window_width,
               !.ds.last_cur = NULL,
               !.ds.details_mask = dired_details_mask(st.ds, st.width)]

\* the buffer is cleared, the header and the lines of the items are written
UpdateRender(st) ==
    LET header == HeaderLines(st.ds)
        body == RenderItems(st.ds, st.g, st.ds.items, SumLen(header))
    IN  [st EXCEPT !.b = header \o body.lines, !.ds.items = body.items]

\* variant: the cursor keeps its line instead of following the item
UpdateCursor_by_line(st) ==
    LET vis == VisibleItems(st.ds.items)
        line == eb_get_pos(st.b, st.s.offset).line
        lines == eb_get_pos(st.b, total_size(st.b)).line
        offset == eb_goto_pos(st.b, IF line < lines THEN line ELSE 0, 0)
    IN  [st EXCEPT
           !.ds.last_cur = dired_get_cur_item(st.ds, [st.s EXCEPT !.offset = offset], st.b),
           !.ds.fnamecol = IF vis = <<>> THEN st.ds.fnamecol
                           ELSE EntryCol(st.ds, st.g, vis[Len(vis)]) - 1,
           !.s.offset = offset,
           !.s.offset_top = eb_goto_pos(st.b, st.top_line, 0)]

\* what the loop does for the item that is cur_item and for the last line
UpdateCursor(st) ==
    LET found == \E i \in 1..Len(st.ds.items) : st.ds.items[i].ptr = st.cur_item
        vis == VisibleItems(st.ds.items)
    IN  [st EXCEPT
           !.ds.last_cur = IF found THEN st.cur_item ELSE NULL,
           !.ds.fnamecol = IF vis = <<>> THEN st.ds.fnamecol
                           ELSE EntryCol(st.ds, st.g, vis[Len(vis)]) - 1,
           !.s.offset = IF found THEN ItemOf(st.ds, st.cur_item).offset ELSE 0,
           !.s.offset_top = eb_goto_pos(st.b, st.top_line, 0)]

\* variant: the listing is regenerated whatever the flags
UpdateRebuild_always(st) ==
    UpdateCursor(UpdateRender(UpdateLayout(st)))

UpdateRebuild(st) ==
    IF ~HasBit(st.flags, DIRED_UPDATE_REBUILD) THEN st
    ELSE UpdateCursor(UpdateRender(UpdateLayout(st)))

\* The result holds the configuration, listing, window and buffer after the
\* call, the final value of the local flags and the local cur_item.
dired_update_buffer(g, ds, s, b, flags, now) ==
    UpdateRebuild(UpdateColumns(UpdateFilter(UpdateSort(
        UpdateEnter(g, ds, s, b, flags))), now))

\* ------------------------------------------------ dired_sort_mode_set_value
qe_tolower(c) == IF c >= 65 /\ c <= 90 THEN c + 32 ELSE c

\* variant: a key letter does not clear the key that was set
SortModeLetter_no_clear(sort_mode, c) ==
    LET l == qe_tolower(c)
    IN  IF l = 110 THEN SetBit(sort_mode, DIRED_SORT_NAME)
        ELSE IF l = 101 THEN SetBit(sort_mode, DIRED_SORT_EXTENSION)
        ELSE IF l = 115 THEN SetBit(sort_mode, DIRED_SORT_SIZE)
        ELSE IF l = 100 THEN SetBit(sort_mode, DIRED_SORT_DATE)
        ELSE IF l = 103 THEN SetBit(sort_mode, DIRED_SORT_GROUP)
        ELSE IF l = 117 THEN ClearBit(sort_mode, DIRED_SORT_GROUP)
        ELSE IF l = 114 THEN XorBit(sort_mode, DIRED_SORT_DESCENDING)
        ELSE IF l = 43 THEN ClearBit(sort_mode, DIRED_SORT_DESCENDING)
        ELSE IF l = 45 THEN SetBit(sort_mode, DIRED_SORT_DESCENDING)
        ELSE sort_mode

SortModeLetter(sort_mode, c) ==
    LET key(k) == (sort_mode - (sort_mode % 16)) + k
        l == qe_tolower(c)
    IN  IF l = 110 THEN key(DIRED_SORT_NAME)
        ELSE IF l = 101 THEN key(DIRED_SORT_EXTENSION)
        ELSE IF l = 115 THEN key(DIRED_SORT_SIZE)
        ELSE IF l = 100 THEN key(DIRED_SORT_DATE)
        ELSE IF l = 103 THEN SetBit(sort_mode, DIRED_SORT_GROUP)
        ELSE IF l = 117 THEN ClearBit(sort_mode, DIRED_SORT_GROUP)
        ELSE IF l = 114 THEN XorBit(sort_mode, DIRED_SORT_DESCENDING)
        ELSE IF l = 43 THEN ClearBit(sort_mode, DIRED_SORT_DESCENDING)
        ELSE IF l = 45 THEN SetBit(sort_mode, DIRED_SORT_DESCENDING)
        ELSE sort_mode

RECURSIVE SortModeOf(_, _)
\* the loop over the characters of str
SortModeOf(str, sort_mode) ==
    IF str = <<>> THEN sort_mode
    ELSE SortModeOf(Tail(str), SortModeLetter(sort_mode, Head(str)))

\* the configuration after the call
dired_sort_mode_set_value(g, str, sort_mode) ==
    LET new == SortModeOf(str, sort_mode)
    IN  IF g.dired_sort_mode # new
          THEN [g EXCEPT !.dired_sort_mode = new, !.sort_modified = 1]
        ELSE g

\* the tokens default compact dos dos-long touch touch-long full seconds
\* and their formats
TimeFormatTokens ==
    {  <<<<100, 101, 102, 97, 117, 108, 116>>, TF_COMPACT>>,
       <<<<99, 111, 109, 112, 97, 99, 116>>, TF_COMPACT>>,
       <<<<100, 111, 115>>, TF_DOS>>,
       <<<<100, 111, 115, 45, 108, 111, 110, 103>>, TF_DOS_LONG>>,
       <<<<116, 111, 117, 99, 104>>, TF_TOUCH>>,
       <<<<116, 111, 117, 99, 104, 45, 108, 111, 110, 103>>, TF_TOUCH_LONG>>,
       <<<<102, 117, 108, 108>>, TF_FULL>>,
       <<<<115, 101, 99, 111, 110, 100, 115>>, TF_SECONDS>> }

\* 0 when str is the token
strxcmp(str, token) == IF str = token THEN 0 ELSE 1

\* the format of a token, -1 for a string that is no token
TokenFormat(str) ==
    IF \E tk \in TimeFormatTokens : strxcmp(str, tk[1]) = 0
      THEN (CHOOSE tk \in TimeFormatTokens : strxcmp(str, tk[1]) = 0)[2]
    ELSE -1

\* variant: the range of a number is not tested
dired_time_format_set_value_no_range(g, has_str, str, format) ==
    IF has_str /\ TokenFormat(str) = -1 THEN [g |-> g, ret |-> "VAR_UNKNOWN"]
    ELSE LET fmt == IF has_str THEN TokenFormat(str) ELSE format
         IN  IF g.dired_time_format # fmt
               THEN [g |-> [g EXCEPT !.dired_time_format = fmt, !.tf_modified = 1],
                     ret |-> "VAR_NUMBER"]
             ELSE [g |-> g, ret |-> "VAR_NUMBER"]

\* has_str: str is not NULL; the configuration after the call and the
\* value returned
dired_time_format_set_value(g, has_str, str, format) ==
    IF has_str /\ TokenFormat(str) = -1 THEN [g |-> g, ret |-> "VAR_UNKNOWN"]
    ELSE LET fmt == IF has_str THEN TokenFormat(str) ELSE format
         IN  IF fmt < 0 \/ fmt > TF_MAX THEN [g |-> g, ret |-> "VAR_UNKNOWN"]
             ELSE IF g.dired_time_format # fmt
               THEN [g |-> [g EXCEPT !.dired_time_format = fmt, !.tf_modified = 1],
                     ret |-> "VAR_NUMBER"]
             ELSE [g |-> g, ret |-> "VAR_NUMBER"]

\* ------------------------------------------------------------ the directories
\* lstat results of the paths a scan can find
\*   1 "a.txt"  2 ".hidden"  3 "sub/"  4 ".DS_Store"  5 ".git/"
Now == 1700000000

Files ==
    << [name |-> <<97, 46, 116, 120, 116>>, mode |-> 33188, nlink |-> 1,
        uid |-> 0, gid |-> 0, rdev |-> 0, mtime |-> Now - 86400, size |-> 100],
       [name |-> <<46, 104, 105, 100, 100, 101, 110>>, mode |-> 33188, nlink |-> 1,
        uid |-> 1000, gid |-> 100, rdev |-> 0, mtime |-> Now - 86400, size |-> 50],
       [name |-> <<115, 117, 98>>, mode |-> 16877, nlink |-> 2,
        uid |-> 0, gid |-> 0, rdev |-> 0, mtime |-> Now - 200 * 86400, size |-> 4096],
       [name |-> DS_Store, mode |-> 33188, nlink |-> 1,
        uid |-> 0, gid |-> 0, rdev |-> 0, mtime |-> Now - 3600, size |-> 6148],
       [name |-> <<46, 103, 105, 116>>, mode |-> 16877, nlink |-> 12,
        uid |-> 1000, gid |-> 100, rdev |-> 0, mtime |-> Now - 3600, size |-> 4096] >>

\* the candidates of one scan whose lstat succeeds, in directory order
RECURSIVE SetToSeq(_)
SetToSeq(S) ==
    IF S = {} THEN <<>>
    ELSE LET m == CHOOSE x \in S : \A y \in S : x <= y
         IN  <<m>> \o SetToSeq(S \ {m})

\* the entries a scan finds, for each directory of the file system
Scans == { {1, 2, 3}, {3, 4, 5}, {} }

\* window widths, sort-order strings and time formats the commands are given
Widths == {30, 80}
SortOrders == { <<115>>, <<114>> }
TimeFormats == {TF_DOS, 7}
Clock == {Now}


\* ----------------------------------------------------------------- the state
VARIABLES
    g,        \* the process-wide configuration (the static variables)
    ds,       \* the DiredState of the listing
    s,        \* the window showing it
    b,        \* its buffer, as lines
    call,     \* the last command or hook and its call of dired_update_buffer
    nchanges  \* configuration changes made so far

vars == <<g, ds, s, b, call, nchanges>>

\* after a command that does not call dired_update_buffer
NoCall == [op |-> "", flags_in |-> 0, flags_out |-> 0, cur_item |-> NULL,
           last_cur |-> NULL]

\* after a command whose call of dired_update_buffer returned r
Called(op, flags, r) ==
    [op |-> op, flags_in |-> flags, flags_out |-> r.flags, cur_item |-> r.cur_item,
     last_cur |-> r.ds.last_cur]

\* ------------------------------------------------------------ dired_build_list
\* the items are released: a pointer to one of them is now a freed pointer
Freed(ptr) == IF ptr = NULL THEN NULL ELSE <<1, ptr[2]>>

\* variant: last_cur is left as it was
dired_free_keep_last_cur(d) == [d EXCEPT !.items = <<>>]

dired_free(d) == [d EXCEPT !.items = <<>>, !.last_cur = NULL]

NewItem(id) ==
    [ptr |-> <<0, id>>, name |-> Files[id].name, mode |-> Files[id].mode,
     nlink |-> Files[id].nlink, uid |-> Files[id].uid, gid |-> Files[id].gid,
     rdev |-> Files[id].rdev, mtime |-> Files[id].mtime, size |-> Files[id].size,
     offset |-> 0, hidden |-> FALSE, mark |-> 32]

\* found: the candidates whose lstat succeeds;
\* the state the scan leaves for dired_update_buffer
ScanItems(d0, found) ==
    [dired_free(d0) EXCEPT
       !.blocksize = 1024, !.last_width = 0,
       !.last_cur = Freed(dired_free(d0).last_cur),
       !.items = [i \in 1..Cardinality(found) |-> NewItem(SetToSeq(found)[i])]]

\* the cursor is put on the target after the update
GotoTarget(r, target) ==
    [r EXCEPT !.s.offset =
        eb_goto_pos(r.b, dired_find_target(r.ds, target), r.ds.fnamecol)]

dired_build_list(g0, d0, s0, found, target, now) ==
    GotoTarget(dired_update_buffer(g0, ScanItems(d0, found),
                                   [s0 EXCEPT !.offset = 0, !.offset_top = 0],
                                   <<>>, DIRED_UPDATE_ALL, now),
               target)

\* ------------------------------------------------------------------ Init
ZeroState ==
    [items |-> <<>>, time_format |-> 0, show_dot_files |-> 0, show_ds_store |-> 0,
     hflag |-> 0, nflag |-> 0, details_flag |-> 0, last_details_flag |-> 0,
     sort_mode |-> 0, last_cur |-> NULL, total_bytes |-> 0,
     ndirs |-> 0, nfiles |-> 0, ndirs_hidden |-> 0, nfiles_hidden |-> 0,
     blocksize |-> 0, last_width |-> 0, details_mask |-> 0,
     blockslen |-> 0, modelen |-> 0, linklen |-> 0, uidlen |-> 0, gidlen |-> 0,
     sizelen |-> 0, datelen |-> 0, namelen |-> 0, fnamecol |-> 0]

InitConfig ==
    [dired_curtime |-> 0, dired_time_format |-> TF_COMPACT,
     dired_show_dot_files |-> 1, dired_show_ds_store |-> 0,
     dired_nflag |-> 0, dired_hflag |-> 0,
     dired_sort_mode |-> DIRED_SORT_GROUP + DIRED_SORT_NAME,
     sort_modified |-> 0, tf_modified |-> 0]

\* the state after dired_mode_init of a new instance
InitWindow(width) ==
    [offset |-> 0, offset_top |-> 0, width |-> width, x1 |-> 0, y1 |-> 0]

Init ==
    \E found \in Scans, width \in Widths, now \in Clock :
        \E r \in {dired_build_list(InitConfig, ZeroState, InitWindow(width),
                                   found, NULL, now)} :
            /\ g = r.g
            /\ ds = r.ds
            /\ s = r.s
            /\ b = r.b
            /\ call = Called("dired_mode_init", DIRED_UPDATE_ALL, r)
            /\ nchanges = 0

\* ------------------------------------------------------------ cursor moves
\* one line up or down, keeping the column
text_move_up_down(s0, b0, dir) ==
    LET pos == eb_get_pos(b0, s0.offset)
        line == pos.line + dir
    IN  IF line < 0 THEN s0
        ELSE [s0 EXCEPT !.offset = eb_goto_pos(b0, line, pos.col)]

dired_up_down(d0, s0, b0, dir) ==
    LET s1 == IF dir # 0 THEN text_move_up_down(s0, b0, dir) ELSE s0
        s2 == IF s1.offset # 0 /\ s1.offset = total_size(b0)
              THEN text_move_up_down(s1, b0, -1) ELSE s1
    IN  [s2 EXCEPT !.offset =
            eb_goto_pos(b0, eb_get_pos(b0, s2.offset).line, d0.fnamecol)]

UpDown ==
    \E dir \in {-1, 1} :
        /\ s' = dired_up_down(ds, s, b, dir)
        /\ call' = NoCall
        /\ UNCHANGED <<g, ds, b, nchanges>>

\* a cursor command of the host puts the point at the end of the buffer
EndOfBuffer ==
    /\ s' = [s EXCEPT !.offset = total_size(b)]
    /\ call' = NoCall
    /\ UNCHANGED <<g, ds, b, nchanges>>

\* the window is resized
Resize ==
    \E width \in Widths :
        /\ width # s.width
        /\ s' = [s EXCEPT !.width = width]
        /\ call' = NoCall
        /\ UNCHANGED <<g, ds, b, nchanges>>


\* ------------------------------------------------------ configuration commands
\* the counter of a command that changes the configuration
ConfigChange ==
    /\ nchanges < MaxChanges
    /\ nchanges' = nchanges + 1

Apply(op, flags, res) ==
    \E r \in {res} :
        /\ g' = r.g
        /\ ds' = r.ds
        /\ s' = r.s
        /\ b' = r.b
        /\ call' = Called(op, flags, r)

DiredSort ==
    \E sort_order \in SortOrders, now \in Clock :
        LET g1 == dired_sort_mode_set_value(g, sort_order, g.dired_sort_mode)
        IN  /\ ConfigChange
            /\ IF g.dired_sort_mode # g1.dired_sort_mode
                 THEN Apply("dired_sort", DIRED_UPDATE_SORT,
                        dired_update_buffer(g1, ds, s, b, DIRED_UPDATE_SORT, now))
               ELSE /\ g' = g1
                    /\ call' = NoCall
                    /\ UNCHANGED <<ds, s, b>>

\* set-variable dired-sort-mode
SetSortMode ==
    \E sort_order \in SortOrders :
        /\ ConfigChange
        /\ g' = dired_sort_mode_set_value(g, sort_order, g.dired_sort_mode)
        /\ call' = NoCall
        /\ UNCHANGED <<ds, s, b>>

\* set-variable dired-show-ds-store
SetShowDsStore ==
    \E val \in {0, 1} :
        /\ ConfigChange
        /\ val # g.dired_show_ds_store
        /\ g' = [g EXCEPT !.dired_show_ds_store = val]
        /\ call' = NoCall
        /\ UNCHANGED <<ds, s, b>>

\* set-variable dired-show-dot-files
SetShowDotFiles ==
    \E val \in {0, 1} :
        /\ ConfigChange
        /\ val # g.dired_show_dot_files
        /\ g' = [g EXCEPT !.dired_show_dot_files = val]
        /\ call' = NoCall
        /\ UNCHANGED <<ds, s, b>>

DiredToggleDotFiles ==
    \E arg \in {-1, 1}, now \in Clock :
        LET val == IF arg = -1 THEN (IF g.dired_show_dot_files = 0 THEN 1 ELSE 0)
                   ELSE arg
        IN  /\ ConfigChange
            /\ IF g.dired_show_dot_files # val
                 THEN Apply("dired_toggle_dot_files", DIRED_UPDATE_FILTER,
                        dired_update_buffer([g EXCEPT !.dired_show_dot_files = val],
                                            ds, s, b, DIRED_UPDATE_FILTER, now))
               ELSE /\ call' = NoCall
                    /\ UNCHANGED <<g, ds, s, b>>

DiredSetTimeFormat ==
    \E format \in TimeFormats :
        /\ ConfigChange
        /\ g' = dired_time_format_set_value(g, FALSE, NULL, format).g
        /\ call' = NoCall
        /\ UNCHANGED <<ds, s, b>>

DiredToggleHuman ==
    /\ ConfigChange
    /\ g' = [g EXCEPT !.dired_hflag = (g.dired_hflag + 1) % 3]
    /\ call' = NoCall
    /\ UNCHANGED <<ds, s, b>>

DiredToggleNflag ==
    /\ ConfigChange
    /\ g' = [g EXCEPT !.dired_nflag = (g.dired_nflag + 1) % 3]
    /\ call' = NoCall
    /\ UNCHANGED <<ds, s, b>>

DiredHideDetailsMode ==
    /\ ConfigChange
    /\ ds' = [ds EXCEPT !.details_flag = (ds.details_flag + 1) % 3]
    /\ call' = NoCall
    /\ UNCHANGED <<g, s, b>>

\* ----------------------------------------------------------- rescans
\* the name of the current item, empty when there is none
CurName == LET dip == dired_get_cur_item(ds, s, b)
           IN  IF dip = NULL THEN <<>> ELSE ItemOf(ds, dip).name

DiredRefresh ==
    \E found \in Scans, now \in Clock :
        /\ Apply("dired_refresh", DIRED_UPDATE_ALL,
                 dired_build_list(g, ds, s, found, CurName, now))
        /\ UNCHANGED nchanges

\* the listed directory is found in its parent under the name "sub"
DiredParent ==
    \E found \in Scans, now \in Clock :
        /\ Apply("dired_parent", DIRED_UPDATE_ALL,
                 dired_build_list(g, ds, s, found, Files[3].name, now))
        /\ UNCHANGED nchanges

\* select on a directory descends into it
DiredSelect ==
    \E found \in Scans, now \in Clock :
        /\ dired_get_cur_item(ds, s, b) # NULL
        /\ S_ISDIR(ItemOf(ds, dired_get_cur_item(ds, s, b)).mode)
        /\ Apply("dired_select", DIRED_UPDATE_ALL,
                 dired_build_list(g, ds, s, found, NULL, now))
        /\ UNCHANGED nchanges

\* --------------------------------------------------------- dired_display_hook
\* Prevent point from going beyond list
HookPoint(d0, s0, b0) ==
    IF s0.offset # 0 /\ s0.offset = total_size(b0)
      THEN dired_up_down(d0, s0, b0, -1) ELSE s0

\* variant: the hook does not compare the widths
HookFlags_no_width(d0, s1) == 0

HookFlags(d0, s1) ==
    IF s1.x1 = 0 /\ s1.y1 = 0 /\ d0.last_width # s1.width
      THEN DIRED_UPDATE_REBUILD ELSE 0

\* the listing after the hook, r being the result of its dired_update_buffer
HookLastCur(r) ==
    IF r.s.x1 = 0 /\ dired_get_cur_item(r.ds, r.s, r.b) # r.ds.last_cur
      THEN [r.ds EXCEPT !.last_cur = dired_get_cur_item(r.ds, r.s, r.b)]
    ELSE r.ds

DisplayHook ==
    \E now \in Clock :
        \E s1 \in {HookPoint(ds, s, b)} :
            \E r \in {dired_update_buffer(g, ds, s1, b, HookFlags(ds, s1), now)} :
                /\ g' = r.g
                /\ ds' = HookLastCur(r)
                /\ s' = r.s
                /\ b' = r.b
                /\ call' = Called("dired_display_hook", HookFlags(ds, s1), r)
                /\ UNCHANGED nchanges

Next ==
    \/ UpDown
    \/ EndOfBuffer
    \/ Resize
    \/ DiredSort
    \/ SetSortMode
    \/ SetShowDsStore
    \/ SetShowDotFiles
    \/ DiredToggleDotFiles
    \/ DiredSetTimeFormat
    \/ DiredToggleHuman
    \/ DiredToggleNflag
    \/ DiredHideDetailsMode
    \/ DiredRefresh
    \/ DiredParent
    \/ DiredSelect
    \/ DisplayHook

Spec == Init /\ [][Next]_vars


\* ======================================================================
\* The sort engine on its own: dired_sort_func and the sort of
\* dired_update_buffer applied to listings drawn from SortFiles, in every
\* directory order and under every sort mode.
\*   1 "a.c"  2 "b.a"  3 "c.a"  4 "d/"  5 "e.c/"  6 ".h"  7 "A.c"  8 "a/"
SortFiles ==
    << [name |-> <<97, 46, 99>>, mode |-> 33188, mtime |-> Now - 10, size |-> 100],
       [name |-> <<98, 46, 97>>, mode |-> 33188, mtime |-> Now - 10, size |-> 200],
       [name |-> <<99, 46, 97>>, mode |-> 33188, mtime |-> Now - 20, size |-> 100],
       [name |-> <<100>>, mode |-> 16877, mtime |-> Now - 10, size |-> 100],
       [name |-> <<101, 46, 99>>, mode |-> 16877, mtime |-> Now - 20, size |-> 200],
       [name |-> <<46, 104>>, mode |-> 33188, mtime |-> Now - 20, size |-> 200],
       [name |-> <<65, 46, 99>>, mode |-> 33188, mtime |-> Now - 10, size |-> 100],
       [name |-> <<97>>, mode |-> 16877, mtime |-> Now - 20, size |-> 100] >>

SortItem(id) ==
    [ptr |-> <<0, id>>, name |-> SortFiles[id].name, mode |-> SortFiles[id].mode,
     nlink |-> 1, uid |-> 0, gid |-> 0, rdev |-> 0,
     mtime |-> SortFiles[id].mtime, size |-> SortFiles[id].size,
     offset |-> 0, hidden |-> FALSE, mark |-> 32]

\* the sequences of at most n different elements of S
RECURSIVE Arrangements(_, _)
Arrangements(S, n) ==
    IF n = 0 THEN {<<>>}
    ELSE {<<>>} \cup {<<x>> \o rest : x \in S, rest \in Arrangements(S, n - 1)}

DistinctSeq(seq) == \A i, j \in 1..Len(seq) : i # j => seq[i] # seq[j]

SortInputs ==
    {seq \in Arrangements(1..Len(SortFiles), MaxSortLen) : DistinctSeq(seq)}

\* one primary key, with and without grouping and descending
SortModes ==
    {key + group + desc :
        key \in {DIRED_SORT_NAME, DIRED_SORT_EXTENSION, DIRED_SORT_SIZE, DIRED_SORT_DATE},
        group \in {0, DIRED_SORT_GROUP}, desc \in {0, DIRED_SORT_DESCENDING}}

\* a scanned listing that is not sorted yet, under any sort mode
SortInit ==
    \E ids \in SortInputs, sort_mode \in SortModes :
        /\ g = [InitConfig EXCEPT !.dired_sort_mode = sort_mode]
        /\ ds = [ZeroState EXCEPT !.items = [i \in 1..Len(ids) |-> SortItem(ids[i])]]
        /\ s = InitWindow(80)
        /\ b = <<>>
        /\ call = NoCall
        /\ nchanges = 0

\* the sort stage of dired_update_buffer
SortListing ==
    /\ call = NoCall
    /\ ds' = UpdateSort([g |-> g, ds |-> ds, flags |-> DIRED_UPDATE_SORT]).ds
    /\ call' = [NoCall EXCEPT !.op = "sort", !.flags_in = DIRED_UPDATE_SORT]
    /\ UNCHANGED <<g, s, b, nchanges>>

SortNext == SortListing

SpecSort == SortInit /\ [][SortNext]_vars

\* ----------------------------------------------------------------------
IsDir(dip) == S_ISDIR(dip.mode)
Sorted == call.op = "sort"
Descending(sort_mode) == XorBit(sort_mode, DIRED_SORT_DESCENDING)

\* C1: with the group flag set, after a sort every directory precedes every
\* non-directory, whatever the primary key and the descending flag; between
\* a directory and a non-directory the comparator gives the same result with
\* and without the descending flag, inside a group it gives the opposite one.
C1_GroupFirst ==
    HasBit(g.dired_sort_mode, DIRED_SORT_GROUP) =>
        /\ Sorted =>
             \A i, j \in 1..Len(ds.items) :
                 (IsDir(ds.items[j]) /\ ~IsDir(ds.items[i])) => j < i
        /\ \A i, j \in 1..Len(ds.items) :
             LET asc == dired_sort_func(g.dired_sort_mode, ds.items[i], ds.items[j])
                 desc == dired_sort_func(Descending(g.dired_sort_mode),
                                         ds.items[i], ds.items[j])
             IN  IF IsDir(ds.items[i]) # IsDir(ds.items[j])
                   THEN asc = desc /\ asc # 0
                 ELSE desc = -asc

\* a sorted listing with directories and files under grouping and descending
C1_Witness ==
    /\ Sorted
    /\ HasBit(ds.sort_mode, DIRED_SORT_GROUP)
    /\ HasBit(ds.sort_mode, DIRED_SORT_DESCENDING)
    /\ HasBit(ds.sort_mode, DIRED_SORT_SIZE)
    /\ Len(ds.items) = 3
    /\ IsDir(ds.items[1]) /\ ~IsDir(ds.items[2]) /\ ~IsDir(ds.items[3])
    /\ ds.items[2].size > ds.items[3].size

\* ----------------------------------------------------------------------
\* every order in which a directory read can deliver the entries of a listing
Reorderings(items) ==
    {[i \in 1..Len(items) |-> items[p[i]]] : p \in Permutations(1..Len(items))}

\* C2: on entries with pairwise different names dired_sort_func is a total
\* order (antisymmetric, zero only for names that collate equal, transitive),
\* so a sort of the same entries under the same mode gives the same sequence
\* whatever order they were in before.
C2_TotalOrder ==
    LET items == ds.items
        n == Len(items)
        cmp(i, j) == dired_sort_func(g.dired_sort_mode, items[i], items[j])
    IN  /\ \A i, j \in 1..n : cmp(i, j) = -cmp(j, i)
        /\ \A i, j \in 1..n :
             cmp(i, j) = 0 => qe_strcollate(items[i].name, items[j].name) = 0
        /\ \A i, j, k \in 1..n : (cmp(i, j) < 0 /\ cmp(j, k) < 0) => cmp(i, k) < 0
        /\ Sorted =>
             /\ \A i, j \in 1..n : i < j => cmp(i, j) < 0
             /\ \A seq \in Reorderings(items) :
                  qe_qsort_r(g.dired_sort_mode, seq) = items

\* three sorted entries, two of them equal on the primary key
C2_Witness ==
    /\ Sorted
    /\ ds.sort_mode = DIRED_SORT_SIZE
    /\ Len(ds.items) = 3
    /\ ds.items[1].size = ds.items[2].size
    /\ ds.items[2].size < ds.items[3].size
    /\ qe_strcollate(ds.items[1].name, ds.items[2].name) < 0

\* ----------------------------------------------------------------------
\* -1, 0 or 1 as x is below, equal to or above y
Compare(x, y) == IF x < y THEN -1 ELSE IF x > y THEN 1 ELSE 0

\* the result of the primary key alone, 0 for the name key
PrimaryKey(sort_mode, dip1, dip2) ==
    IF HasBit(sort_mode, DIRED_SORT_DATE) THEN Compare(dip1.mtime, dip2.mtime)
    ELSE IF HasBit(sort_mode, DIRED_SORT_SIZE) THEN Compare(dip1.size, dip2.size)
    ELSE IF HasBit(sort_mode, DIRED_SORT_EXTENSION)
      THEN qe_strcollate(get_extension(dip1.name), get_extension(dip2.name))
    ELSE 0

\* C21: for two entries that the grouping step does not separate,
\* dired_sort_func gives the result of the primary key (date: earlier first,
\* size: smaller first, extension: collation of the text after the last '.')
\* and, when that is equal and always under the name key, the collation of
\* the full names; with the descending flag it gives the opposite sign. A
\* sorted listing is ordered that way inside each group.
C21_PrimaryKey ==
    LET mode == g.dired_sort_mode
        sign == IF HasBit(mode, DIRED_SORT_DESCENDING) THEN -1 ELSE 1
        same_group(d1, d2) == ~HasBit(mode, DIRED_SORT_GROUP) \/ IsDir(d1) = IsDir(d2)
        expected(d1, d2) ==
            IF PrimaryKey(mode, d1, d2) # 0 THEN PrimaryKey(mode, d1, d2)
            ELSE qe_strcollate(d1.name, d2.name)
    IN  /\ \A i, j \in 1..Len(ds.items) :
             same_group(ds.items[i], ds.items[j]) =>
                 dired_sort_func(mode, ds.items[i], ds.items[j])
                     = sign * expected(ds.items[i], ds.items[j])
        /\ Sorted =>
             \A i, j \in 1..Len(ds.items) :
                 (i < j /\ same_group(ds.items[i], ds.items[j])) =>
                     sign * expected(ds.items[i], ds.items[j]) < 0

\* sorted by date: c.a (earlier) before a.c and b.a, which have the same
\* date and are ordered by name
C21_Witness ==
    /\ Sorted
    /\ ds.sort_mode = DIRED_SORT_DATE
    /\ Len(ds.items) = 3
    /\ ds.items[1].name = SortFiles[3].name
    /\ ds.items[2].name = SortFiles[1].name
    /\ ds.items[3].name = SortFiles[2].name
    /\ ds.items[1].mtime < ds.items[2].mtime
    /\ ds.items[2].mtime = ds.items[3].mtime

\* ======================================================================
\* Properties of the listing under Spec
Name_a_txt == Files[1].name
Name_hidden == Files[2].name
Name_sub == Files[3].name

StartsWithDot(name) == name # <<>> /\ name[1] = 46
Dirs(items) == SelectSeq(items, LAMBDA d : S_ISDIR(d.mode))
NonDirs(items) == SelectSeq(items, LAMBDA d : ~S_ISDIR(d.mode))
HasItem(name, hidden) ==
    \E i \in 1..Len(ds.items) : ds.items[i].name = name /\ ds.items[i].hidden = hidden

\* the last command or hook called dired_update_buffer and the call came
\* out with the flag set
CallDid(flag) == call.op # "" /\ HasBit(call.flags_out, flag)

\* C3: after dired_filter_files an entry is hidden exactly when its name
\* starts with '.' and show-dot-files is off, or its name is ".DS_Store" and
\* show-ds-store is off; the flags in force are the ones the listing caches.
C3_Hidden ==
    /\ \A i \in 1..Len(ds.items) :
         ds.items[i].hidden <=>
             \/ (StartsWithDot(ds.items[i].name) /\ ds.show_dot_files = 0)
             \/ (ds.items[i].name = DS_Store /\ ds.show_ds_store = 0)
    /\ CallDid(DIRED_UPDATE_FILTER) =>
         /\ ds.show_dot_files = g.dired_show_dot_files
         /\ ds.show_ds_store = g.dired_show_ds_store

\* show-ds-store was switched on and the next display refresh filtered again
C3_Witness ==
    /\ call.op = "dired_display_hook"
    /\ call.flags_in = 0
    /\ HasBit(call.flags_out, DIRED_UPDATE_FILTER)
    /\ g.dired_show_ds_store = 1
    /\ HasItem(DS_Store, FALSE)

\* C4: the counters agree with the hidden flags: shown and hidden
\* directories add up to the directories, shown and hidden files to the
\* non-directories, and total_bytes is the size of the shown non-directories.
C4_Counters ==
    /\ ds.ndirs = Len(VisibleItems(Dirs(ds.items)))
    /\ ds.nfiles = Len(VisibleItems(NonDirs(ds.items)))
    /\ ds.ndirs + ds.ndirs_hidden = Len(Dirs(ds.items))
    /\ ds.nfiles + ds.nfiles_hidden = Len(NonDirs(ds.items))
    /\ ds.total_bytes = SumSize(VisibleItems(NonDirs(ds.items)))

\* a.txt (100 bytes), .hidden (50 bytes) and sub/ with dot files hidden
C4_Witness ==
    /\ call.op = "dired_toggle_dot_files"
    /\ g.dired_show_dot_files = 0
    /\ Len(ds.items) = 3
    /\ HasItem(Name_a_txt, FALSE) /\ HasItem(Name_hidden, TRUE) /\ HasItem(Name_sub, FALSE)
    /\ ds.ndirs = 1 /\ ds.nfiles = 1 /\ ds.nfiles_hidden = 1 /\ ds.ndirs_hidden = 0
    /\ ds.total_bytes = 100

\* ----------------------------------------------------------------------
\* what dired_update_buffer compares: the values cached in the listing
\* against the configuration
SortClean(g0, d0) == d0.sort_mode = g0.dired_sort_mode
FilterClean(g0, d0) ==
    /\ d0.show_dot_files = g0.dired_show_dot_files
    /\ d0.show_ds_store = g0.dired_show_ds_store
ColumnsClean(g0, d0) ==
    /\ d0.time_format = g0.dired_time_format
    /\ d0.nflag = g0.dired_nflag
    /\ d0.hflag = g0.dired_hflag
    /\ d0.last_details_flag = d0.details_flag
Clean(g0, d0) == SortClean(g0, d0) /\ FilterClean(g0, d0) /\ ColumnsClean(g0, d0)

\* the buffer is the rendering of the listing
Regenerated(g0, d0, b0) ==
    b0 = HeaderLines(d0)
         \o RenderItems(d0, g0, d0.items, SumLen(HeaderLines(d0))).lines

IsHook(c) == c.op = "dired_display_hook"

\* C5: on entry to dired_update_buffer a cached sort mode that differs from
\* the configuration sets needs-sort, a differing show-dot-files or
\* show-ds-store sets needs-filter, a differing time format, nflag or detail
\* mode sets needs-columns; needs-sort, needs-filter or needs-columns always
\* come with needs-rebuild and the listing is regenerated in the same call.
C5_Detection ==
    [][ call'.op # "" =>
          /\ call'.flags_in = 0 =>
               /\ ~SortClean(g, ds) => HasBit(call'.flags_out, DIRED_UPDATE_SORT)
               /\ ~FilterClean(g, ds) => HasBit(call'.flags_out, DIRED_UPDATE_FILTER)
               /\ (\/ ds.time_format # g.dired_time_format
                   \/ ds.nflag # g.dired_nflag
                   \/ ds.details_flag # ds.last_details_flag)
                    => HasBit(call'.flags_out, DIRED_UPDATE_COLUMNS)
          /\ (\/ HasBit(call'.flags_out, DIRED_UPDATE_SORT)
              \/ HasBit(call'.flags_out, DIRED_UPDATE_FILTER)
              \/ HasBit(call'.flags_out, DIRED_UPDATE_COLUMNS))
               => /\ HasBit(call'.flags_out, DIRED_UPDATE_REBUILD)
                  /\ Clean(g', ds')
                  /\ Regenerated(g', ds', b')
      ]_vars

\* a display refresh without a flag found the sort mode changed
C5_Witness ==
    /\ IsHook(call)
    /\ call.flags_in = 0
    /\ call.flags_out = DIRED_UPDATE_SORT + DIRED_UPDATE_REBUILD
    /\ Len(ds.items) = 3

\* C6: dired_update_buffer called without a flag on a listing whose cached
\* values all equal the configuration changes nothing: the order of the
\* entries, their hidden flags, the counters, the cached widths, the details
\* mask, last_cur, last_width and the buffer are the ones before the call.
C6_NoOp ==
    [][ (IsHook(call') /\ call'.flags_in = 0 /\ Clean(g, ds)) =>
          /\ call'.flags_out = 0
          /\ [ds' EXCEPT !.last_cur = ds.last_cur] = ds
          /\ call'.last_cur = ds.last_cur
          /\ b' = b
          /\ g' = g
          /\ s' = HookPoint(ds, s, b)
      ]_vars

\* a display refresh of a clean listing, the cursor on another line than at
\* the refresh before
C6_Witness ==
    /\ IsHook(call)
    /\ call.flags_in = 0
    /\ call.flags_out = 0
    /\ Len(VisibleItems(ds.items)) >= 2
    /\ call.last_cur # ds.last_cur

\* C7: after every call that rebuilt, the listing is clean: the cached sort
\* mode, show flags, time format, nflag, hflag, detail mode and width are
\* those of the configuration and of the window, and the display refresh
\* that follows with the same configuration and width does not rebuild.
C7_CleanAfterRebuild ==
    CallDid(DIRED_UPDATE_REBUILD) =>
        /\ Clean(g, ds)
        /\ ds.last_width = s.width
        /\ \A now \in Clock :
             \A s1 \in {HookPoint(ds, s, b)} :
                 /\ HookFlags(ds, s1) = 0
                 /\ dired_update_buffer(g, ds, s1, b, 0, now).flags = 0

\* a display refresh rebuilt after the window was resized and hflag changed
C7_Witness ==
    /\ IsHook(call)
    /\ call.flags_in = DIRED_UPDATE_REBUILD
    /\ HasBit(call.flags_out, DIRED_UPDATE_COLUMNS)
    /\ ds.hflag = 1
    /\ ds.last_width = 30

\* C8: a rebuild keeps the current entry by identity: when the cursor was on
\* an entry that is still shown, the cursor is at the start of the line of
\* that entry after the rebuild, dired_get_cur_item returns the entry and
\* last_cur is the entry.
C8_CurrentEntry ==
    (/\ CallDid(DIRED_UPDATE_REBUILD)
     /\ call.cur_item # NULL
     /\ \E i \in 1..Len(ds.items) :
            ds.items[i].ptr = call.cur_item /\ ~ds.items[i].hidden)
    => /\ s.offset = ItemOf(ds, call.cur_item).offset
       /\ eb_get_pos(b, s.offset).col = 0
       /\ b[eb_get_pos(b, s.offset).line + 1].ptr = call.cur_item
       /\ dired_get_cur_item(ds, s, b) = call.cur_item
       /\ call.last_cur = call.cur_item
       /\ ds.last_cur = call.cur_item

\* a descending sort moved the current entry a.txt from the third line of
\* the entries to the second
C8_Witness ==
    /\ call.op = "dired_sort"
    /\ CallDid(DIRED_UPDATE_REBUILD)
    /\ call.cur_item # NULL
    /\ Len(VisibleItems(ds.items)) = 3
    /\ VisibleItems(ds.items)[2].ptr = call.cur_item
    /\ HasBit(ds.sort_mode, DIRED_SORT_DESCENDING)
    /\ VisibleItems(ds.items)[2].name = Name_a_txt

\* ----------------------------------------------------------------------
ColumnWidths(d0) ==
    <<d0.namelen, d0.blockslen, d0.modelen, d0.linklen, d0.uidlen, d0.gidlen,
      d0.sizelen, d0.datelen>>

WidthChanged == s.x1 = 0 /\ s.y1 = 0 /\ ds.last_width # s.width

\* C9 as stated: a display refresh of a window whose width is not the one
\* recorded at the last rebuild sets needs-columns.
C9_Original ==
    [][ (IsHook(call') /\ ds.last_width # s.width)
          => HasBit(call'.flags_out, DIRED_UPDATE_COLUMNS) ]_vars

\* C9: a display refresh of the window at the origin whose width is not the
\* one recorded at the last rebuild sets needs-rebuild only: the listing is
\* regenerated and laid out for the new width from the cached column widths;
\* needs-columns is set only when the time format, nflag, hflag or detail
\* mode changed too.
C9_WidthChange ==
    [][ (IsHook(call') /\ WidthChanged) =>
          /\ call'.flags_in = DIRED_UPDATE_REBUILD
          /\ HasBit(call'.flags_out, DIRED_UPDATE_REBUILD)
          /\ ds'.last_width = s.width
          /\ ds'.details_mask = dired_details_mask(ds', s.width)
          /\ Regenerated(g', ds', b')
          /\ HasBit(call'.flags_out, DIRED_UPDATE_COLUMNS) <=> ~ColumnsClean(g, ds)
          /\ ColumnsClean(g, ds) =>
               /\ ColumnWidths(ds') = ColumnWidths(ds)
               /\ g'.dired_curtime = g.dired_curtime
      ]_vars

\* a display refresh after a resize to 30 columns rebuilt and nothing else
C9_Witness ==
    /\ IsHook(call)
    /\ call.flags_in = DIRED_UPDATE_REBUILD
    /\ call.flags_out = DIRED_UPDATE_REBUILD
    /\ ds.last_width = 30
    /\ Len(ds.items) = 3
    /\ ds.details_mask # DIRED_SHOW_ALL - DIRED_SHOW_BLOCKS

\* ======================================================================
\* The layout pass on its own: the assignments of dired_update_buffer
\* between the early return and the regeneration, applied to cached column
\* widths, detail modes, nflag values and window widths drawn from sets.
\* The widths dired_compute_columns leaves: those of an empty listing, those
\* of a listing measured with the details hidden, and measured ones.
LayoutColumns(details_flag) ==
    LET none == [namelen |-> 0, blockslen |-> 0, modelen |-> 0, linklen |-> 0,
                 uidlen |-> 0, gidlen |-> 0, sizelen |-> 0, datelen |-> 0]
    IN  {none}
        \cup {[none EXCEPT !.namelen = n] : n \in {5, 20, 50}}
        \cup (IF details_flag = DIRED_DETAILS_HIDE THEN {}
              ELSE {[namelen |-> n, blockslen |-> 1, modelen |-> 10, linklen |-> l,
                     uidlen |-> u, gidlen |-> u, sizelen |-> sz, datelen |-> d] :
                        n \in {5, 20, 50}, l \in {1, 3}, u \in {1, 8},
                        sz \in {1, 5}, d \in {12, 16}})

LayoutInit ==
    \E details_flag \in {DIRED_DETAILS_AUTO, DIRED_DETAILS_HIDE, DIRED_DETAILS_SHOW},
       nflag \in 0..2, width \in 0..MaxWidth :
        \E c \in LayoutColumns(details_flag) :
            /\ g = [InitConfig EXCEPT !.dired_nflag = nflag]
            /\ ds = [ZeroState EXCEPT
                       !.details_flag = details_flag, !.nflag = nflag,
                       !.sort_mode = InitConfig.dired_sort_mode,
                       !.show_dot_files = InitConfig.dired_show_dot_files,
                       !.namelen = c.namelen, !.blockslen = c.blockslen,
                       !.modelen = c.modelen, !.linklen = c.linklen,
                       !.uidlen = c.uidlen, !.gidlen = c.gidlen,
                       !.sizelen = c.sizelen, !.datelen = c.datelen]
            /\ s = InitWindow(width)
            /\ b = <<>>
            /\ call = NoCall
            /\ nchanges = 0

LayoutListing ==
    /\ call = NoCall
    /\ ds' = UpdateLayout(UpdateEnter(g, ds, s, b, DIRED_UPDATE_REBUILD)).ds
    /\ call' = [NoCall EXCEPT !.op = "layout", !.flags_in = DIRED_UPDATE_REBUILD,
                              !.flags_out = DIRED_UPDATE_REBUILD]
    /\ UNCHANGED <<g, s, b, nchanges>>

LayoutNext == LayoutListing

SpecLayout == LayoutInit /\ [][LayoutNext]_vars

\* ----------------------------------------------------------------------
LaidOut == call.op = "layout"
Shown(bit) == HasBit(ds.details_mask, bit)

\* the room left of the name column
Budget == s.width \div max_int(1, get_glyph_width) - clamp_int(ds.namelen, 16, 40)

\* what the layout pass charges for the columns of the details mask
ChargedWidth ==
    (IF Shown(DIRED_SHOW_BLOCKS) THEN ds.blockslen + 1 ELSE 0)
    + (IF Shown(DIRED_SHOW_MODE) THEN ds.modelen + 1 ELSE 0)
    + (IF Shown(DIRED_SHOW_LINKS) THEN ds.linklen + 1 ELSE 0)
    + (IF Shown(DIRED_SHOW_UID) THEN ds.uidlen + 1 ELSE 0)
    + (IF Shown(DIRED_SHOW_GID) THEN ds.gidlen + 1 ELSE 0)
    + (IF Shown(DIRED_SHOW_SIZE) THEN ds.sizelen + 2 ELSE 0)
    + (IF Shown(DIRED_SHOW_DATE) THEN ds.datelen + 2 ELSE 0)

\* C10 as stated: after a rebuild, in every detail mode, the columns of the
\* details mask with their separators take at most the display width minus
\* clamp(namelen, 16, 40).
C10_Original == LaidOut => ChargedWidth <= Budget

\* C10: after a rebuild in auto mode the columns of a details mask that is
\* not empty take, at the widths the layout pass charges for them, at most
\* the display width minus clamp(namelen, 16, 40); in hidden mode the mask is
\* empty and in shown mode it holds every column, whatever the width.
C10_Layout ==
    LaidOut =>
        /\ (ds.details_flag = DIRED_DETAILS_AUTO /\ ds.details_mask # 0)
             => ChargedWidth <= Budget
        /\ ds.details_flag = DIRED_DETAILS_HIDE => ds.details_mask = 0
        /\ ds.details_flag = DIRED_DETAILS_SHOW => ds.details_mask = DIRED_SHOW_ALL

\* auto mode kept size and date, filled the room exactly and dropped the rest
C10_Witness ==
    /\ LaidOut
    /\ ds.details_flag = DIRED_DETAILS_AUTO
    /\ ds.details_mask = DIRED_SHOW_SIZE + DIRED_SHOW_DATE
    /\ ChargedWidth = Budget
    /\ ds.namelen = 50

\* ----------------------------------------------------------------------
ShowBits ==
    {DIRED_SHOW_BLOCKS, DIRED_SHOW_MODE, DIRED_SHOW_LINKS, DIRED_SHOW_UID,
     DIRED_SHOW_GID, DIRED_SHOW_SIZE, DIRED_SHOW_DATE}

\* the columns of a details mask
Columns(mask) == {bit \in ShowBits : HasBit(mask, bit)}

\* C11: with the cached widths, the configuration and the detail mode fixed,
\* a rebuild at a narrower width shows no more optional columns than a
\* rebuild at a wider one: the columns at every width below the width of the
\* window are among the columns of the window's details mask.
C11_Monotone ==
    LaidOut =>
        \A w \in 0..s.width :
            /\ Cardinality(Columns(dired_details_mask(ds, w)))
                 <= Cardinality(Columns(ds.details_mask))
            /\ Columns(dired_details_mask(ds, w)) \subseteq Columns(ds.details_mask)

\* auto mode shows four columns, three at a narrower width and none at a
\* still narrower one
C11_Witness ==
    /\ LaidOut
    /\ ds.details_flag = DIRED_DETAILS_AUTO
    /\ Cardinality(Columns(ds.details_mask)) = 4
    /\ \E w1, w2 \in 0..s.width :
         /\ w1 < w2
         /\ Cardinality(Columns(dired_details_mask(ds, w1))) = 0
         /\ Cardinality(Columns(dired_details_mask(ds, w2))) = 3

\* C12 as stated: in shown mode the details mask after a rebuild holds mode,
\* links, owner, group, size and date but not the block count.
C12_Original ==
    (LaidOut /\ ds.details_flag = DIRED_DETAILS_SHOW) =>
        ds.details_mask = DIRED_SHOW_ALL - DIRED_SHOW_BLOCKS

\* C13 as stated: in auto mode owner and group are dropped whenever the
\* numeric-id flag forces their display to be numeric.
C13_Original ==
    (LaidOut /\ ds.details_flag = DIRED_DETAILS_AUTO /\ ds.nflag # 0) =>
        ~Shown(DIRED_SHOW_UID) /\ ~Shown(DIRED_SHOW_GID)

\* C13: in auto mode owner and group are dropped whatever the width when
\* nflag is 2; with nflag 1 the ids are printed as numbers and the two
\* columns are kept or dropped by the room left, as with nflag 0.
C13_NflagHidden ==
    (LaidOut /\ ds.details_flag = DIRED_DETAILS_AUTO) =>
        /\ ds.nflag = 2 => ~Shown(DIRED_SHOW_UID) /\ ~Shown(DIRED_SHOW_GID)
        /\ ds.nflag = 1 =>
             ds.details_mask = dired_details_mask([ds EXCEPT !.nflag = 0], s.width)

\* nflag 2 in a window with room for every column: links are shown, owner
\* and group are not
C13_Witness ==
    /\ LaidOut
    /\ ds.details_flag = DIRED_DETAILS_AUTO
    /\ ds.nflag = 2
    /\ s.width = MaxWidth
    /\ ds.details_mask = DIRED_SHOW_MODE + DIRED_SHOW_LINKS + DIRED_SHOW_SIZE
                         + DIRED_SHOW_DATE

\* ----------------------------------------------------------------------
\* the optional columns in the order of the pass, with what each is charged
PriorityOrder ==
    << [bit |-> DIRED_SHOW_SIZE, charge |-> ds.sizelen + 2],
       [bit |-> DIRED_SHOW_DATE, charge |-> ds.datelen + 2],
       [bit |-> DIRED_SHOW_MODE, charge |-> ds.modelen + 1],
       [bit |-> DIRED_SHOW_UID, charge |-> ds.uidlen + 1],
       [bit |-> DIRED_SHOW_GID, charge |-> ds.gidlen + 1],
       [bit |-> DIRED_SHOW_LINKS, charge |-> ds.linklen + 1] >>

\* the columns one pass over cols keeps: each column outside skipped is
\* charged to the budget and kept when the budget is not negative after it
RECURSIVE OnePass(_, _, _)
OnePass(budget, cols, skipped) ==
    IF cols = <<>> THEN {}
    ELSE IF Head(cols).bit \in skipped THEN OnePass(budget, Tail(cols), skipped)
    ELSE (IF budget - Head(cols).charge < 0 THEN {} ELSE {Head(cols).bit})
         \cup OnePass(budget - Head(cols).charge, Tail(cols), skipped)

\* C22 as stated: in auto mode the details mask is the result of one pass
\* over size, date, mode, owner, group and link count that charges each
\* column to the budget and drops it when the budget becomes negative.
C22_Original ==
    (LaidOut /\ ds.details_flag = DIRED_DETAILS_AUTO) =>
        Columns(ds.details_mask) = OnePass(Budget, PriorityOrder, {})

\* C22: in auto mode the details mask is the result of one pass over size
\* (width + 2), date (width + 2), mode (width + 1), owner (width + 1), group
\* (width + 1) and link count (width + 1) that charges each column to the
\* budget, display width - clamp(namelen, 16, 40), and drops it when the
\* budget becomes negative; with nflag 2 owner and group are dropped without
\* being charged; the block count is never in the mask.
C22_AutoPass ==
    (LaidOut /\ ds.details_flag = DIRED_DETAILS_AUTO) =>
        /\ Columns(ds.details_mask) =
             OnePass(Budget, PriorityOrder,
                     IF ds.nflag = 2 THEN {DIRED_SHOW_UID, DIRED_SHOW_GID} ELSE {})
        /\ ~Shown(DIRED_SHOW_BLOCKS)

\* nflag 2 at a width where the link count fits only because owner and
\* group are not charged
C22_Witness ==
    /\ LaidOut
    /\ ds.details_flag = DIRED_DETAILS_AUTO
    /\ ds.nflag = 2
    /\ Shown(DIRED_SHOW_LINKS)
    /\ DIRED_SHOW_LINKS \notin OnePass(Budget, PriorityOrder, {})
    /\ Shown(DIRED_SHOW_MODE) /\ ~Shown(DIRED_SHOW_UID) /\ ~Shown(DIRED_SHOW_BLOCKS)

\* ----------------------------------------------------------------------
\* the columns the pass tests against the budget, in its order
Tested ==
    SelectSeq(PriorityOrder,
              LAMBDA c : ~(ds.nflag = 2 /\ c.bit \in {DIRED_SHOW_UID, DIRED_SHOW_GID}))

\* the columns of order that are shown are its first ones
IsPrefix(order) ==
    \A i, j \in 1..Len(order) : (i < j /\ Shown(order[j].bit)) => Shown(order[i].bit)

\* C25 as stated: in auto mode the shown columns always form a prefix of
\* the order size, date, mode, owner, group, links.
C25_Original ==
    (LaidOut /\ ds.details_flag = DIRED_DETAILS_AUTO) => IsPrefix(PriorityOrder)

\* C25: in auto mode a column dropped for lack of budget stays charged, so
\* every column the pass tests after it is dropped too: the shown columns
\* form a prefix of the order size, date, mode, owner, group, links without
\* owner and group when nflag is 2, and a narrower later column is never
\* shown after a wider earlier one was dropped for budget.
C25_GreedyPrefix ==
    (LaidOut /\ ds.details_flag = DIRED_DETAILS_AUTO) =>
        /\ IsPrefix(Tested)
        /\ \A i, j \in 1..Len(Tested) :
             (i < j /\ ~Shown(Tested[i].bit) /\ Tested[j].charge < Tested[i].charge)
                 => ~Shown(Tested[j].bit)

\* size is shown, date is dropped and the narrower mode column, which would
\* fit in the room left after size, is dropped too
C25_Witness ==
    /\ LaidOut
    /\ ds.details_flag = DIRED_DETAILS_AUTO
    /\ ds.details_mask = DIRED_SHOW_SIZE
    /\ Budget - (ds.sizelen + 2) - (ds.modelen + 1) >= 0
    /\ Budget - (ds.sizelen + 2) - (ds.datelen + 2) < 0

\* ======================================================================
\* compute_attr on its own: the mode of one entry, of every file type and
\* with every combination of the twelve permission bits; b holds the
\* characters written to atts.
FileTypes == {0, 1, 2, 4, 6, 8, 10, 12}
PermBits == 0..4095

AttrInit ==
    \E type \in FileTypes, perm \in PermBits :
        /\ g = InitConfig
        /\ ds = [ZeroState EXCEPT
                   !.items = <<[SortItem(1) EXCEPT !.mode = type * 4096 + perm]>>]
        /\ s = InitWindow(80)
        /\ b = <<>>
        /\ call = NoCall
        /\ nchanges = 0

ComputeAttr ==
    /\ call = NoCall
    /\ b' = compute_attr(ds.items[1].mode)
    /\ call' = [NoCall EXCEPT !.op = "compute_attr"]
    /\ UNCHANGED <<g, ds, s, nchanges>>

AttrNext == ComputeAttr

SpecAttr == AttrInit /\ [][AttrNext]_vars

\* ----------------------------------------------------------------------
AttrDone == call.op = "compute_attr"
AttrMode == ds.items[1].mode

\* C14 as stated: with the sticky bit set the character at position 9 is 't'
\* when the other-execute bit is set and 'T' when it is not, and positions
\* 1 to 8 are those of the mode without the sticky bit.
C14_Original ==
    (AttrDone /\ HasBit(AttrMode, Perm.ISVTX)) =>
        /\ b[10] = (IF HasBit(AttrMode, Perm.IXOTH) THEN Chr.t ELSE Chr.T)
        /\ SubSeq(b, 2, 9) = SubSeq(compute_attr(ClearBit(AttrMode, Perm.ISVTX)), 2, 9)

\* C15: position 0 of the permission string is one character decided by
\* the file type: 'd' directory, 'b' block device, 'c' character device,
\* 'p' fifo, 's' socket, 'l' symbolic link, '-' regular file; a mode is of
\* one type only, so a symbolic link never shows the character of a
\* directory; the string has 10 characters.
C15_TypeGlyph ==
    AttrDone =>
        /\ Len(b) = 10
        /\ S_ISDIR(AttrMode) => b[1] = Chr.d
        /\ S_ISBLK(AttrMode) => b[1] = Chr.b
        /\ S_ISCHR(AttrMode) => b[1] = Chr.c
        /\ S_ISFIFO(AttrMode) => b[1] = Chr.p
        /\ S_ISSOCK(AttrMode) => b[1] = Chr.s
        /\ S_ISLNK(AttrMode) => b[1] = Chr.l
        /\ S_ISREG(AttrMode) => b[1] = Chr.dash
        /\ b[1] \in {Chr.d, Chr.b, Chr.c, Chr.p, Chr.s, Chr.l, Chr.dash}

\* a socket with mode 0755
C15_Witness ==
    /\ AttrDone
    /\ S_ISSOCK(AttrMode)
    /\ AttrMode % 4096 = 493
    /\ b = <<Chr.s, Chr.r, Chr.w, Chr.x, Chr.r, Chr.dash, Chr.x, Chr.r, Chr.dash, Chr.x>>

\* ======================================================================
\* format_number on its own: the size of one entry under every value of
\* dired_hflag; b holds the characters written to buf.  The byte counts are
\* every value up to MaxNumber and values around the powers of 1000 and 1024
\* below 2^31.
LargeNumbers ==
    {m * p + d : m \in {1, 9, 10, 11, 999, 1000, 1023, 1024, 2047},
                 p \in {1000, 1024, 1000 * 1000, 1024 * 1024},
                 d \in {-1, 0, 1}}
    \cup {2147483647, 1000 * 1000 * 1000, 1024 * 1024 * 1024, 1999999999}

Numbers == (0..MaxNumber) \cup LargeNumbers

NumberInit ==
    \E human \in 0..2, number \in Numbers :
        /\ g = [InitConfig EXCEPT !.dired_hflag = human]
        /\ ds = [ZeroState EXCEPT !.hflag = human,
                                  !.items = <<[SortItem(1) EXCEPT !.size = number]>>]
        /\ s = InitWindow(80)
        /\ b = <<>>
        /\ call = NoCall
        /\ nchanges = 0

FormatNumber ==
    /\ call = NoCall
    /\ b' = format_number(ds.hflag, ds.items[1].size)
    /\ call' = [NoCall EXCEPT !.op = "format_number"]
    /\ UNCHANGED <<g, ds, s, nchanges>>

NumberNext == FormatNumber

SpecNumber == NumberInit /\ [][NumberNext]_vars

\* ----------------------------------------------------------------------
NumberDone == call.op = "format_number"
IsDigit(c) == c \in 48..57

\* position of a letter in the suffix string, 0 when it is not in it
SuffixIndex(suffix, c) ==
    IF \E i \in 1..Len(suffix) : suffix[i] = c
      THEN CHOOSE i \in 1..Len(suffix) : suffix[i] = c ELSE 0

\* C16: format_number follows the cutoffs: exact mode prints the decimal
\* count; a human mode prints a count below 1000 as the integer and 'B'; a
\* count from 1000 up to the one-decimal bound (10000 decimal, 10200 binary)
\* as one digit, '.', one digit and the next suffix letter; a larger count
\* as the count divided by 1000 (decimal) or shifted right by 10 (binary)
\* is printed, with the suffix letter advanced by one; a human result has at
\* most 4 characters.
C16_Cutoffs ==
    NumberDone =>
        LET human == ds.hflag
            number == ds.items[1].size
            binary == human = 1
            suffix == IF binary THEN SuffixGeek ELSE SuffixMetric
            onedec == IF binary THEN 10200 ELSE 10000
            reduced == IF binary THEN number \div 1024 ELSE number \div 1000
            rest == format_number(human, reduced)
        IN  /\ human = 0 => b = PrintfD(number)
            /\ human # 0 =>
                 /\ Len(b) <= 4
                 /\ number < 1000 => b = PrintfD(number) \o <<66>>
                 /\ (number >= 1000 /\ number < onedec) =>
                      /\ Len(b) = 4
                      /\ IsDigit(b[1]) /\ b[2] = 46 /\ IsDigit(b[3])
                      /\ b[4] = suffix[2]
                      /\ b[1] - 48 = number \div (IF binary THEN 1020 ELSE 1000)
                      /\ b[3] - 48 = (number \div (IF binary THEN 102 ELSE 100)) % 10
                 /\ number >= onedec =>
                      /\ SubSeq(b, 1, Len(b) - 1) = SubSeq(rest, 1, Len(rest) - 1)
                      /\ SuffixIndex(suffix, b[Len(b)])
                           = SuffixIndex(suffix, rest[Len(rest)]) + 1
                      /\ SuffixIndex(suffix, rest[Len(rest)]) > 0

\* 1000 in the decimal human mode is "1.0k"
C16_Witness ==
    /\ NumberDone
    /\ ds.hflag = 2
    /\ ds.items[1].size = 1000
    /\ b = <<49, 46, 48, 107>>

\* C23 as stated: the value 0 of the size-format flag prints the exact
\* count, the value 1 the decimal human form (powers of 1000, suffix 'k')
\* and the value 2 the binary human form (powers of 1024, suffix 'K').
C23_Original ==
    NumberDone =>
        LET number == ds.items[1].size
        IN  /\ ds.hflag = 0 => b = PrintfD(number)
            /\ ds.hflag = 1 => b = HumanLoop(number, SuffixMetric, 10000, FALSE)
            /\ ds.hflag = 2 => b = HumanLoop(number, SuffixGeek, 10200, TRUE)

\* ======================================================================
\* format_date on its own: the modification time of one entry, within
\* MaxSkew seconds of now and of the two limits of the compact window, under
\* every time format; dired_curtime is the time dired_compute_columns
\* sampled; b holds the form and length of what is written to dest.
HalfYear == 182 * 86400

DateTimes ==
    {Now + base + d : base \in {-HalfYear, 0, HalfYear}, d \in (-MaxSkew)..MaxSkew}

DateInit ==
    \E systime \in DateTimes, time_format \in TF_COMPACT..TF_MAX :
        /\ g = [InitConfig EXCEPT !.dired_time_format = time_format,
                                  !.dired_curtime = Now]
        /\ ds = [ZeroState EXCEPT !.time_format = time_format,
                                  !.items = <<[SortItem(1) EXCEPT !.mtime = systime]>>]
        /\ s = InitWindow(80)
        /\ b = <<>>
        /\ call = NoCall
        /\ nchanges = 0

FormatDate ==
    /\ call = NoCall
    /\ b' = format_date(ds.items[1].mtime, g.dired_time_format, g.dired_curtime)
    /\ call' = [NoCall EXCEPT !.op = "format_date"]
    /\ UNCHANGED <<g, ds, s, nchanges>>

DateNext == FormatDate

SpecDate == DateInit /\ [][DateNext]_vars

\* ----------------------------------------------------------------------
DateDone == call.op = "format_date"
CompactForm(t) == format_date(t, TF_COMPACT, g.dired_curtime).form

\* C17: the compact format chooses the month-day-time form exactly when
\* now - 182 days < t < now + 182 days, both limits excluded, and the
\* month-day-year form otherwise; with now fixed, once the time form is
\* reached before now it is kept up to now, and once the year form is
\* reached after now it is kept; t exactly 182 days before now gets the year
\* form.
C17_CompactWindow ==
    (DateDone /\ g.dired_time_format = TF_COMPACT) =>
        LET t == ds.items[1].mtime
            now == g.dired_curtime
        IN  /\ b.form = "month-day-time" <=> (now - HalfYear < t /\ t < now + HalfYear)
            /\ b.form # "month-day-time" => b.form = "month-day-year"
            /\ (t = now - HalfYear \/ t = now + HalfYear) => b.form = "month-day-year"
            /\ \A d \in 0..MaxSkew :
                 /\ (b.form = "month-day-time" /\ t + d <= now)
                      => CompactForm(t + d) = "month-day-time"
                 /\ (b.form = "month-day-year" /\ t >= now)
                      => CompactForm(t + d) = "month-day-year"
                 /\ (b.form = "month-day-year" /\ t <= now)
                      => CompactForm(t - d) = "month-day-year"

\* a time exactly 182 days before now in the compact format
C17_Witness ==
    /\ DateDone
    /\ g.dired_time_format = TF_COMPACT
    /\ ds.items[1].mtime = g.dired_curtime - HalfYear
    /\ b.form = "month-day-year"

\* ======================================================================
\* dired_sort_mode_set_value on its own: every string of at most MaxStrLen
\* of the characters n E s d g u r + - x, from every sort mode with one
\* primary key; b holds str, the listing keeps the sort mode before the call.
SortChars == {110, 69, 115, 100, 103, 117, 114, 43, 45, 120}

SortModeInit ==
    \E str \in Arrangements(SortChars, MaxStrLen), sort_mode \in SortModes :
        /\ g = [InitConfig EXCEPT !.dired_sort_mode = sort_mode]
        /\ ds = [ZeroState EXCEPT !.sort_mode = sort_mode]
        /\ s = InitWindow(80)
        /\ b = str
        /\ call = NoCall
        /\ nchanges = 0

SortModeSetValue ==
    /\ call = NoCall
    /\ g' = dired_sort_mode_set_value(g, b, g.dired_sort_mode)
    /\ call' = [NoCall EXCEPT !.op = "dired_sort_mode_set_value"]
    /\ UNCHANGED <<ds, s, b, nchanges>>

SortModeNext == SortModeSetValue

SpecSortMode == SortModeInit /\ [][SortModeNext]_vars

\* ----------------------------------------------------------------------
SortModeDone == call.op = "dired_sort_mode_set_value"
KeyBits(sort_mode) ==
    {k \in {DIRED_SORT_NAME, DIRED_SORT_EXTENSION, DIRED_SORT_SIZE, DIRED_SORT_DATE} :
        HasBit(sort_mode, k)}

\* the key a letter stands for, 0 for a character that is no key letter
LetterKey(c) ==
    IF c \in {110, 78} THEN DIRED_SORT_NAME
    ELSE IF c \in {101, 69} THEN DIRED_SORT_EXTENSION
    ELSE IF c \in {115, 83} THEN DIRED_SORT_SIZE
    ELSE IF c \in {100, 68} THEN DIRED_SORT_DATE
    ELSE 0

\* n e s d g u r + - in both cases
Recognized == {110, 78, 101, 69, 115, 83, 100, 68, 103, 71, 117, 85, 114, 82, 43, 45}

\* C18: from a sort mode with one primary key, every sort-order string
\* leaves one primary key: that of the last n/e/s/d letter of the string in
\* either case, or the key before the call when the string has none; the
\* characters outside nesdgur+- change neither the key nor the group and
\* descending flags.
C18_OneKey ==
    SortModeDone =>
        LET old == ds.sort_mode
            new == g.dired_sort_mode
            keys == {i \in 1..Len(b) : LetterKey(b[i]) # 0}
            last == CHOOSE i \in keys : \A j \in keys : j <= i
        IN  /\ Cardinality(KeyBits(new)) = 1
            /\ keys = {} => KeyBits(new) = KeyBits(old)
            /\ keys # {} => KeyBits(new) = {LetterKey(b[last])}
            /\ new = SortModeOf(SelectSeq(b, LAMBDA c : c \in Recognized), old)
            /\ (\A i \in 1..Len(b) : b[i] \notin Recognized) => new = old
            /\ g.sort_modified = (IF new # old THEN 1 ELSE 0)

\* "sxE" from name with grouping gives extension with grouping
C18_Witness ==
    /\ SortModeDone
    /\ b = <<115, 120, 69>>
    /\ ds.sort_mode = DIRED_SORT_GROUP + DIRED_SORT_NAME
    /\ g.dired_sort_mode = DIRED_SORT_GROUP + DIRED_SORT_EXTENSION

\* ======================================================================
\* dired_time_format_set_value on its own: called with a string or with
\* NULL and a number, from every time format; b holds the arguments and the
\* value returned, the listing keeps the format before the call.
\* The strings that are no token: "" dosx do 7 iso dos-longer fullest
OtherStrings ==
    { <<>>,
      <<100, 111, 115, 120>>,
      <<100, 111>>,
      <<55>>,
      <<105, 115, 111>>,
      <<100, 111, 115, 45, 108, 111, 110, 103, 101, 114>>,
      <<102, 117, 108, 108, 101, 115, 116>> }

TokenStrings == {tk[1] : tk \in TimeFormatTokens}

TimeFormatInit ==
    \E old \in TF_COMPACT..TF_MAX, has_str \in BOOLEAN,
       str \in TokenStrings \cup OtherStrings, format \in (-2)..9 :
        /\ has_str \/ str = <<>>
        /\ g = [InitConfig EXCEPT !.dired_time_format = old]
        /\ ds = [ZeroState EXCEPT !.time_format = old]
        /\ s = InitWindow(80)
        /\ b = [has_str |-> has_str, str |-> str, format |-> format, ret |-> ""]
        /\ call = NoCall
        /\ nchanges = 0

TimeFormatSetValue ==
    /\ call = NoCall
    /\ \E r \in {dired_time_format_set_value(g, b.has_str, b.str, b.format)} :
         /\ g' = r.g
         /\ b' = [b EXCEPT !.ret = r.ret]
    /\ call' = [NoCall EXCEPT !.op = "dired_time_format_set_value"]
    /\ UNCHANGED <<ds, s, nchanges>>

TimeFormatNext == TimeFormatSetValue

SpecTimeFormat == TimeFormatInit /\ [][TimeFormatNext]_vars

\* ----------------------------------------------------------------------
TimeFormatDone == call.op = "dired_time_format_set_value"

\* C19: dired_time_format_set_value accepts the tokens default, compact,
\* dos, dos-long, touch, touch-long, full and seconds, and without a string
\* a number from 0 to 6; for every other string or number it returns
\* VAR_UNKNOWN and leaves dired_time_format and the modified flag of the
\* variable as they were.
C19_TimeFormatTokens ==
    TimeFormatDone =>
        LET old == ds.time_format
            accepted == IF b.has_str THEN b.str \in TokenStrings
                        ELSE b.format \in TF_COMPACT..TF_MAX
            format == IF b.has_str THEN TokenFormat(b.str) ELSE b.format
        IN  /\ accepted =>
                 /\ b.ret = "VAR_NUMBER"
                 /\ g.dired_time_format = format
                 /\ g.tf_modified = (IF format # old THEN 1 ELSE 0)
            /\ ~accepted =>
                 /\ b.ret = "VAR_UNKNOWN"
                 /\ g.dired_time_format = old
                 /\ g.tf_modified = 0

\* the number 7 without a string is rejected while the format is dos
C19_Witness ==
    /\ TimeFormatDone
    /\ ~b.has_str
    /\ b.format = 7
    /\ b.ret = "VAR_UNKNOWN"
    /\ g.dired_time_format = TF_DOS
    /\ g.tf_modified = 0

\* ======================================================================
\* The scan of dired_build_list with candidates whose lstat can fail: call
\* holds the candidates find_file_next returns, in directory order, and the
\* set of paths whose lstat succeeds.
Paths == 1..Len(Files)

\* the loop as the variant that gives up at the first lstat failure
RECURSIVE find_file_loop_break(_, _)
find_file_loop_break(candidates, lstat_ok) ==
    IF candidates = <<>> THEN {}
    ELSE IF Head(candidates) \notin lstat_ok THEN {}
    ELSE {Head(candidates)} \cup find_file_loop_break(Tail(candidates), lstat_ok)

\* the candidates that pass the lstat test of the loop
RECURSIVE find_file_loop(_, _)
find_file_loop(candidates, lstat_ok) ==
    IF candidates = <<>> THEN {}
    ELSE IF Head(candidates) \notin lstat_ok
      THEN find_file_loop(Tail(candidates), lstat_ok)
    ELSE {Head(candidates)} \cup find_file_loop(Tail(candidates), lstat_ok)

ScanInit ==
    \E cands \in SUBSET Paths, lstat_ok \in SUBSET Paths, dots \in {0, 1} :
        /\ g = [InitConfig EXCEPT !.dired_show_dot_files = dots]
        /\ ds = ZeroState
        /\ s = InitWindow(80)
        /\ b = <<>>
        /\ call = [op |-> "", candidates |-> SetToSeq(cands), lstat_ok |-> lstat_ok]
        /\ nchanges = 0

ScanBuildList ==
    /\ call.op = ""
    /\ \E r \in {dired_build_list(g, ds, s,
                                  find_file_loop(call.candidates, call.lstat_ok),
                                  NULL, Now)} :
         /\ g' = r.g
         /\ ds' = r.ds
         /\ s' = r.s
         /\ b' = r.b
         /\ call' = [call EXCEPT !.op = "dired_build_list"]
    /\ UNCHANGED nchanges

ScanNext == ScanBuildList

SpecScan == ScanInit /\ [][ScanNext]_vars

\* ----------------------------------------------------------------------
ScanDone == call.op = "dired_build_list"

Range(seq) == {seq[i] : i \in 1..Len(seq)}

\* the entries of the listing made from path id
EntriesOf(id) == {i \in 1..Len(ds.items) : ds.items[i].ptr[2] = id}

\* C20: a candidate whose lstat fails is skipped and the scan goes on with
\* the next candidate; every other candidate gives exactly one entry, created
\* with mark ' ' and not hidden; the listing holds exactly the candidates
\* whose lstat succeeded.
C20_ScanSkip ==
    ScanDone =>
        LET read == Range(call.candidates) \cap call.lstat_ok
        IN  /\ \A id \in Paths :
                 Cardinality(EntriesOf(id)) = (IF id \in read THEN 1 ELSE 0)
            /\ Len(ds.items) = Cardinality(read)
            /\ \A i \in 1..Len(ds.items) :
                 /\ ds.items[i].mark = 32
                 /\ ds.items[i].name = Files[ds.items[i].ptr[2]].name
                 /\ ds.items[i].mode = Files[ds.items[i].ptr[2]].mode
            /\ \A id \in read : ~NewItem(id).hidden /\ NewItem(id).mark = 32

\* lstat fails for the second of five candidates and the three after it
\* that can be read are listed
C20_Witness ==
    /\ ScanDone
    /\ call.candidates = <<1, 2, 3, 4, 5>>
    /\ call.lstat_ok = {1, 3, 4, 5}
    /\ Len(ds.items) = 4
    /\ EntriesOf(2) = {}
    /\ \A id \in {3, 4, 5} : Cardinality(EntriesOf(id)) = 1

\* ======================================================================
\* last_cur refers to nothing or to an item of the listing d
Live(d) == d.last_cur = NULL \/ \E i \in 1..Len(d.items) : d.items[i].ptr = d.last_cur

\* C24: in every state reached by scans, refreshes, cursor moves, rebuilds
\* and display refreshes, last_cur is NULL or the pointer of an item of the
\* listing, never that of an item a rescan freed; this also holds between
\* the scan loop of a rescan and its call of dired_update_buffer.
C24_LastCur ==
    /\ Live(ds)
    /\ \A found \in Scans : Live(ScanItems(ds, found))

\* the display hook has set last_cur to the current entry, and a rescan of
\* that listing clears it
C24_Witness ==
    /\ IsHook(call)
    /\ ds.last_cur # NULL
    /\ ds.last_cur = dired_get_cur_item(ds, s, b)
    /\ \E i \in 1..Len(ds.items) : ds.items[i].ptr = ds.last_cur
    /\ ScanItems(ds, {3, 4, 5}).last_cur = NULL

\* ======================================================================
\* dired_mark and the commands that rebuild or rescan a listing with marks.
\* do_bol puts the point at the start of its line; eb_replace_char32 at that
\* offset replaces the mark character of the line.
do_bol(s0, b0) == [s0 EXCEPT !.offset = eb_goto_pos(b0, eb_get_pos(b0, s0.offset).line, 0)]

eb_replace_char32(b0, offset, ch) ==
    [b0 EXCEPT ![eb_get_pos(b0, offset).line + 1].mark = ch]

SetMark(d0, dip, ch) ==
    [d0 EXCEPT !.items = [i \in 1..Len(d0.items) |->
        IF d0.items[i].ptr = dip THEN [d0.items[i] EXCEPT !.mark = ch]
        ELSE d0.items[i]]]

\* variant: the mark is stored in the item and not written to the buffer
dired_mark_no_char(d0, s0, b0, mark) ==
    LET dir == IF mark < 0 THEN -1 ELSE 1
        ch == IF mark < 0 THEN 32 ELSE mark
        s1 == IF dir < 0 THEN dired_up_down(d0, s0, b0, -1) ELSE s0
        dip == dired_get_cur_item(d0, s1, b0)
        d1 == IF dip # NULL THEN SetMark(d0, dip, ch) ELSE d0
        s2 == IF dip # NULL THEN do_bol(s1, b0) ELSE s1
    IN  [ds |-> d1, b |-> b0,
         s |-> IF dir > 0 THEN dired_up_down(d1, s2, b0, 1) ELSE s2]

\* mark < 0 unmarks backwards: the point moves up before the mark is written
dired_mark(d0, s0, b0, mark) ==
    LET dir == IF mark < 0 THEN -1 ELSE 1
        ch == IF mark < 0 THEN 32 ELSE mark
        s1 == IF dir < 0 THEN dired_up_down(d0, s0, b0, -1) ELSE s0
        dip == dired_get_cur_item(d0, s1, b0)
        d1 == IF dip # NULL THEN SetMark(d0, dip, ch) ELSE d0
        s2 == IF dip # NULL THEN do_bol(s1, b0) ELSE s1
        b1 == IF dip # NULL THEN eb_replace_char32(b0, s2.offset, ch) ELSE b0
    IN  [ds |-> d1, b |-> b1,
         s |-> IF dir > 0 THEN dired_up_down(d1, s2, b1, 1) ELSE s2]

\* the marks of the commands: 'D' of dired-delete, -1 of dired-unmark-backward
Marks == {68, -1}

\* the directory of the marked listing: a.txt and .hidden
MarkScan == {1, 2}

MarkInit ==
    \E r \in {dired_build_list(InitConfig, ZeroState, InitWindow(80),
                               MarkScan, NULL, Now)} :
        /\ g = r.g
        /\ ds = r.ds
        /\ s = r.s
        /\ b = r.b
        /\ call = Called("dired_mode_init", DIRED_UPDATE_ALL, r)
        /\ nchanges = 0

DiredMark ==
    \E mark \in Marks :
        \E r \in {dired_mark(ds, s, b, mark)} :
            /\ ds' = r.ds
            /\ s' = r.s
            /\ b' = r.b
            /\ call' = [NoCall EXCEPT !.op = "dired_mark",
                          !.cur_item = dired_get_cur_item(ds,
                              IF mark < 0 THEN dired_up_down(ds, s, b, -1) ELSE s, b)]
            /\ UNCHANGED <<g, nchanges>>

\* dired_sort with "r", dired_toggle_dot_files and dired_hide_details_mode,
\* any number of times
MarkSort ==
    \E sort_order \in {<<114>>} :
        LET g1 == dired_sort_mode_set_value(g, sort_order, g.dired_sort_mode)
        IN  /\ g.dired_sort_mode # g1.dired_sort_mode
            /\ Apply("dired_sort", DIRED_UPDATE_SORT,
                     dired_update_buffer(g1, ds, s, b, DIRED_UPDATE_SORT, Now))
            /\ UNCHANGED nchanges

MarkToggleDotFiles ==
    /\ Apply("dired_toggle_dot_files", DIRED_UPDATE_FILTER,
             dired_update_buffer(
                 [g EXCEPT !.dired_show_dot_files = 1 - g.dired_show_dot_files],
                 ds, s, b, DIRED_UPDATE_FILTER, Now))
    /\ UNCHANGED nchanges

MarkHideDetails ==
    /\ ds' = [ds EXCEPT !.details_flag = (ds.details_flag + 1) % 3]
    /\ call' = NoCall
    /\ UNCHANGED <<g, s, b, nchanges>>

\* dired_refresh and dired_parent scan again; the listing has no directory
\* for dired_select to descend into
MarkRescan ==
    \E op \in {"dired_refresh", "dired_parent"} :
        /\ Apply(op, DIRED_UPDATE_ALL,
                 dired_build_list(g, ds, s, MarkScan,
                                  IF op = "dired_refresh" THEN CurName
                                  ELSE Files[3].name, Now))
        /\ UNCHANGED nchanges

MarkNext ==
    \/ DiredMark
    \/ UpDown
    \/ Resize
    \/ MarkSort
    \/ MarkToggleDotFiles
    \/ MarkHideDetails
    \/ MarkRescan
    \/ DisplayHook

SpecMark == MarkInit /\ [][MarkNext]_vars

\* ----------------------------------------------------------------------
\* the marks of the items, by pointer
MarkOf(d) == [p \in {d.items[i].ptr : i \in 1..Len(d.items)} |-> ItemOf(d, p).mark]

\* the items without their marks and buffer offsets
Unmarked(d) == [i \in 1..Len(d.items) |-> [d.items[i] EXCEPT !.mark = 32]]

\* every line of an item starts with the mark of the item
MarksRendered ==
    \A k \in 1..Len(b) : b[k].ptr # NULL => b[k].mark = ItemOf(ds, b[k].ptr).mark

PointAt(line, col) == [s EXCEPT !.offset = eb_goto_pos(b, line, col)]

\* C27: after every rebuild the buffer has 2 header lines and then one line
\* for each entry that is not hidden, in the order of the listing; the
\* entry lines are ndirs + nfiles, a hidden entry has no line, and
\* dired_get_cur_item with the point on line 2 + k gives the k-th entry that
\* is not hidden, the one rendered on that line.
C27_Lines ==
    CallDid(DIRED_UPDATE_REBUILD) =>
        LET vis == VisibleItems(ds.items)
        IN  /\ Len(b) = DIRED_HEADER + Len(vis)
            /\ \A k \in 1..DIRED_HEADER : b[k].ptr = NULL
            /\ Len(vis) = ds.ndirs + ds.nfiles
            /\ \A i \in 1..Len(ds.items) :
                 ds.items[i].hidden =>
                     ~\E k \in 1..Len(b) : b[k].ptr = ds.items[i].ptr
            /\ \A k \in 0..(Len(vis) - 1) :
                 /\ b[DIRED_HEADER + k + 1].ptr = vis[k + 1].ptr
                 /\ eb_get_pos(b, vis[k + 1].offset) = [line |-> DIRED_HEADER + k, col |-> 0]
                 /\ \A col \in {0, ds.fnamecol} :
                      dired_get_cur_item(ds, PointAt(DIRED_HEADER + k, col), b)
                          = vis[k + 1].ptr

\* .hidden is hidden between sub and a.txt: two entry lines, and line 3 is
\* a.txt, the third item of the listing
C27_Witness ==
    /\ CallDid(DIRED_UPDATE_REBUILD)
    /\ Len(ds.items) = 3
    /\ ds.items[2].hidden /\ ~ds.items[1].hidden /\ ~ds.items[3].hidden
    /\ Len(b) = 4
    /\ b[4].ptr = ds.items[3].ptr
    /\ dired_get_cur_item(ds, PointAt(3, 0), b) = ds.items[3].ptr
    /\ ds.ndirs + ds.nfiles = 2

\* ======================================================================
\* Two listings, each with its window and buffer, under the one
\* configuration: ds, s and b hold the two of them, call.listing is the
\* listing of the last command or hook.
Listings == {1, 2}

TwoInit ==
    \E r1 \in {dired_build_list(InitConfig, ZeroState, InitWindow(80),
                                {1, 2, 3}, NULL, Now)} :
        \E r2 \in {dired_build_list(r1.g, ZeroState, InitWindow(80),
                                    {3, 4, 5}, NULL, Now)} :
            /\ g = r2.g
            /\ ds = <<r1.ds, r2.ds>>
            /\ s = <<r1.s, r2.s>>
            /\ b = <<r1.b, r2.b>>
            /\ call = Called("dired_mode_init", DIRED_UPDATE_ALL, r2) @@ [listing |-> 2]
            /\ nchanges = 0

\* listing i takes the result r of its dired_update_buffer
TwoApply(i, op, flags, r) ==
    /\ g' = r.g
    /\ ds' = [ds EXCEPT ![i] = r.ds]
    /\ s' = [s EXCEPT ![i] = r.s]
    /\ b' = [b EXCEPT ![i] = r.b]
    /\ call' = Called(op, flags, r) @@ [listing |-> i]
    /\ UNCHANGED nchanges

TwoSort ==
    \E i \in Listings, sort_order \in SortOrders :
        LET g1 == dired_sort_mode_set_value(g, sort_order, g.dired_sort_mode)
        IN  /\ g.dired_sort_mode # g1.dired_sort_mode
            /\ TwoApply(i, "dired_sort", DIRED_UPDATE_SORT,
                        dired_update_buffer(g1, ds[i], s[i], b[i],
                                            DIRED_UPDATE_SORT, Now))

TwoToggleDotFiles ==
    \E i \in Listings :
        TwoApply(i, "dired_toggle_dot_files", DIRED_UPDATE_FILTER,
                 dired_update_buffer(
                     [g EXCEPT !.dired_show_dot_files = 1 - g.dired_show_dot_files],
                     ds[i], s[i], b[i], DIRED_UPDATE_FILTER, Now))

TwoDisplayHook ==
    \E i \in Listings :
        \E s1 \in {HookPoint(ds[i], s[i], b[i])} :
            \E r \in {dired_update_buffer(g, ds[i], s1, b[i],
                                          HookFlags(ds[i], s1), Now)} :
                TwoApply(i, "dired_display_hook", HookFlags(ds[i], s1),
                         [r EXCEPT !.ds = HookLastCur(r)])

TwoNext == TwoSort \/ TwoToggleDotFiles \/ TwoDisplayHook

SpecTwo == TwoInit /\ [][TwoNext]_vars

\* ----------------------------------------------------------------------
\* the listing d is ordered by the sort mode of g0
Ordered(g0, d) ==
    \A i, j \in 1..Len(d.items) :
        i < j => dired_sort_func(g0.dired_sort_mode, d.items[i], d.items[j]) < 0

\* the hidden flags and counters of d are those of the filter settings of g0
Filtered(g0, d) ==
    /\ \A i \in 1..Len(d.items) :
         d.items[i].hidden <=> FilterHidden(g0, d.items[i].name)
    /\ d.ndirs = Len(VisibleItems(Dirs(d.items)))
    /\ d.nfiles = Len(VisibleItems(NonDirs(d.items)))
    /\ d.ndirs_hidden = Len(Dirs(d.items)) - d.ndirs
    /\ d.nfiles_hidden = Len(NonDirs(d.items)) - d.nfiles

\* C28: with two listings under the one configuration, dired_sort or
\* dired_toggle_dot_files through one listing changes nothing in the other,
\* whose order and hidden flags stay as they were; after the display hook
\* of a listing its entries are ordered by the sort mode in force and its
\* hidden flags and counters are those of the filter settings in force.
C28_TwoListings ==
    /\ [](IsHook(call) =>
            /\ Ordered(g, ds[call.listing])
            /\ Filtered(g, ds[call.listing]))
    /\ [][\A j \in Listings :
              j # call'.listing => ds'[j] = ds[j] /\ s'[j] = s[j] /\ b'[j] = b[j]]_vars

\* the sort mode and the dot-file filter were changed through listing 1,
\* which left listing 2 as it was; the display hook of listing 2 has sorted
\* and filtered it
C28_Witness ==
    /\ IsHook(call)
    /\ call.listing = 2
    /\ call.flags_in = 0
    /\ HasBit(call.flags_out, DIRED_UPDATE_SORT)
    /\ HasBit(call.flags_out, DIRED_UPDATE_FILTER)
    /\ g.dired_show_dot_files = 0
    /\ HasBit(g.dired_sort_mode, DIRED_SORT_DESCENDING)
    /\ Ordered(g, ds[2]) /\ Filtered(g, ds[2])
    /\ \E i \in 1..Len(ds[2].items) : ds[2].items[i].hidden

====
